---- MODULE Spec2Model ----
(***************************************************************************)
(* Process-lifecycle and transport layer of the VergeGrid control panel:   *)
(* the module-level lifecycle functions and screens of gridctl_working.py, *)
(* the screens of gridctl_complete.py, and the vg.backend package          *)
(* (transport, tmux, estates).                                             *)
(*                                                                         *)
(* Text (paths, command lines, tmux targets, marker contents) is a         *)
(* sequence of tokens; a token is a character or an indivisible word.      *)
(***************************************************************************)
EXTENDS Integers, Sequences, FiniteSets, Bags, TLC

\* ------------------------------------------------------------------ bounds
\* Estate directories under the estates root in the lifecycle specification.
LifeEstates == 2
\* Estate directories under the estates root in the batch specification.
BatchEstates == 4
\* Live processes with one and the same window and command line.
MaxProcs == 2
\* Estate directories under the estates root in the backend specification.
BackendEstates == 2
\* Entries of the estates root in the discovery specification.
DiscoverEntries == 2
\* Estate directories under the estates root in the login specification.
LoginEstates == 2
\* Estate directories under the estates root in the message-pump specification.
PumpEstates == 1
\* Estate directories under the estates root in the cancellation specification.
CancelEstates == 2
\* Button presses waiting in the estate screen's message queue.
MaxInbox == 1
\* Estate directories under the estates root in the routing specification.
RouteEstates == 1
\* estates whose estate.args file the editor can open
ArgsEstates == 2

\* ------------------------------------------------------------------ text
AllNames ==
  << <<"a">>, <<"a", "b">>, <<"b">>, <<"b", "a">>, <<"c">>, <<"c", "a">> >>

Names(n) == {AllNames[i] : i \in 1..n}

CharOrd(c) == CASE c = "a" -> 1 [] c = "b" -> 2 [] c = "c" -> 3 [] c = "x" -> 24

RECURSIVE LexLess(_, _)
LexLess(s, t) ==
  IF s = <<>> THEN t # <<>>
  ELSE IF t = <<>> THEN FALSE
  ELSE IF Head(s) = Head(t) THEN LexLess(Tail(s), Tail(t))
  ELSE CharOrd(Head(s)) < CharOrd(Head(t))

\* sorted(names): ascending, as Python orders str.
RECURSIVE sorted(_)
sorted(S) ==
  IF S = {} THEN <<>>
  ELSE LET m == CHOOSE x \in S : \A y \in S \ {x} : LexLess(x, y)
       IN  <<m>> \o sorted(S \ {m})

\* pat in s
IsSubstring(pat, s) ==
  \E i \in 1..(Len(s) - Len(pat) + 1) : SubSeq(s, i, i + Len(pat) - 1) = pat

Whitespace == {" ", "\n", "\t"}

\* str.strip()
RECURSIVE lstrip(_)
lstrip(s) ==
  IF s # <<>> /\ Head(s) \in Whitespace THEN lstrip(Tail(s)) ELSE s

RECURSIVE rstrip(_)
rstrip(s) ==
  IF s # <<>> /\ s[Len(s)] \in Whitespace
  THEN rstrip(SubSeq(s, 1, Len(s) - 1)) ELSE s

strip(s) == rstrip(lstrip(s))

\* pathlib: str(Path(p)) collapses repeated separators and drops a trailing one.
RECURSIVE Collapse(_)
Collapse(p) ==
  IF Len(p) <= 1 THEN p
  ELSE IF p[1] = "/" /\ p[2] = "/" THEN Collapse(Tail(p))
  ELSE <<p[1]>> \o Collapse(Tail(p))

PathNorm(p) ==
  LET c == Collapse(p)
  IN  IF Len(c) > 1 /\ c[Len(c)] = "/" THEN SubSeq(c, 1, Len(c) - 1) ELSE c

\* str.rstrip("/")
RECURSIVE rstripSlash(_)
rstripSlash(p) ==
  IF p # <<>> /\ p[Len(p)] = "/" THEN rstripSlash(SubSeq(p, 1, Len(p) - 1)) ELSE p

\* Path(root) / name
PathJoin(root, name) == PathNorm(root \o <<"/">> \o name)

\* f"{root}/{name}"
RawJoin(root, name) == root \o <<"/">> \o name

\* The spellings of the estates root a settings file can hold.
RootSpellings == { <<"/", "x">>, <<"/", "x", "/">> }

\* f"inidirectory={path}"
IniArg(path) == <<"inidirectory=">> \o path

None == <<>>

\* ------------------------------------------------------------------ state
VARIABLES
  estatesRoot,  \* config.estates, as spelled in the settings
  valid,        \* names of the valid estate directories under the root
  panel,        \* the application running: "working" or "complete"
  transport,    \* app_ref.transport: "local", "ssh" or "unknown"
  procs,        \* per host, the bag of live processes [win, args]
  session,      \* per host, whether tmux session vgctl exists
  markers,      \* ~/.gridstl_sessions: marker id -> file content
  pc,           \* position of the handler in flight ("idle" when none)
  sel,          \* the estate the handler in flight selected
  queue,        \* the batch's list of estates
  idx,          \* the batch's loop index (items completed)
  log,          \* status / progress lines written by the handler in flight
  sent,         \* tmux send-keys commands run by the handler in flight
  pauses,       \* asyncio.sleep durations of the batch in flight
  attempts,     \* estates the batch in flight has operated on, in order
  last,         \* the last completed call: op, id, ret, exc
  environ,      \* what detect_transport reads: os.environ, cfg, the local machine
  detected,     \* the transport detect_transport returned
  fs,           \* the estates root as the transport's host holds it
  bk,           \* the last vg.backend call: function, argument, result
  pump          \* the estate screen's message pump: presses waiting, handlers running

vars == << estatesRoot, valid, panel, transport, procs, session, markers,
           pc, sel, queue, idx, log, sent, pauses, attempts, last,
           environ, detected, fs, bk, pump >>

cfgVars == << estatesRoot, valid, panel, transport, environ, detected, fs, bk,
             pump >>
batchVars == << queue, idx, pauses, attempts >>

Hosts == {"local", "remote"}

\* ------------------------------------------------------------------ processes
\* session_name = f"estate-{estate}"
EstateWindow(e) == <<"estate-">> \o e
RobustWindow == <<"robust">>
\* f"vgctl:{session_name}"
Target(win) == <<"vgctl", ":">> \o win

RobustId == <<"robust">>
\* estate_{estate}.session / robust.session
MarkerId(e) == <<"estate_">> \o e

\* The process exec'd in the window of an estate: dotnet OpenSim.dll
\* --hypergrid=true --inidirectory=<dir> (the shell has removed the quotes).
EstateProc(e, dir) ==
  [win |-> EstateWindow(e),
   args |-> << <<"dotnet">>, <<"OpenSim", ".dll">>, <<"--", "hypergrid=true">>,
               <<"--">> \o IniArg(dir) >>]

\* dotnet Robust.dll -inifile=Robust.HG.ini, under the window's shell.
RobustProc ==
  [win |-> RobustWindow,
   args |-> << <<"dotnet">>, <<"Robust", ".dll">>,
               <<"-", "inifile=", "Robust", ".HG.ini">> >>]

\* The command line as pgrep -f / pkill -f see it: the arguments joined by spaces.
RECURSIVE JoinArgs(_)
JoinArgs(a) ==
  IF a = <<>> THEN <<>>
  ELSE IF Len(a) = 1 THEN a[1]
  ELSE a[1] \o <<" ">> \o JoinArgs(Tail(a))

\* any(pat in arg for arg in cmdline)
ArgMatch(pat, p) == \E i \in 1..Len(p.args) : IsSubstring(pat, p.args[i])
\* pgrep -f pat / pkill -f pat
CmdlineMatch(pat, p) == IsSubstring(pat, JoinArgs(p.args))

Live(w, h) == BagToSet(w.procs[h])

\* bag b without every copy of the records in D
Without(b, D) == [p \in (DOMAIN b) \ D |-> b[p]]

Launch(w, h, p) == [w EXCEPT !.procs[h] = @ (+) SetToBag({p})]

CanLaunch(h, p) == CopiesIn(p, procs[h]) < MaxProcs

\* tmux resolves the target to a window of session vgctl.
TargetExists(w, h, target) ==
  w.session[h] /\ \E p \in Live(w, h) : Target(p.win) = target

World == [procs |-> procs, session |-> session, markers |-> markers]

WriteMarker(m, id, content) ==
  [x \in (DOMAIN m) \cup {id} |-> IF x = id THEN content ELSE m[x]]
\* session_file.unlink(missing_ok=True)
Unlink(m, id) == [x \in (DOMAIN m) \ {id} |-> m[x]]

\* What one invocation meets in its environment: whether the tmux binary is
\* installed where the command executes (bin), whether the tmux server carries
\* out session and send-keys commands (srv) and new-window (win), and whether
\* the remote shell connects (reach, read by the SSH transport only).
TmuxEnv == [bin : BOOLEAN, srv : BOOLEAN, win : BOOLEAN, reach : BOOLEAN]

Env(bin, srv, win, reach) == [bin |-> bin, srv |-> srv, win |-> win, reach |-> reach]
AnyEnv == Env(TRUE, TRUE, TRUE, TRUE)

\* The environments a transport tells apart, one of each kind.
TmuxEnvs(tr) ==
  CASE tr = "unknown" -> {AnyEnv}
    [] tr = "ssh" -> {t \in TmuxEnv : (~t.reach => ~t.bin) /\ (~t.bin => ~t.srv /\ ~t.win)}
    [] OTHER -> {t \in TmuxEnv : t.reach /\ (~t.bin => ~t.srv /\ ~t.win)}

\* The outcomes of a terminate signal over the matching processes M: sig maps
\* each to "dies", "survives" (signalled, still alive) or "denied".
SigOutcomes(M) == [M -> {"dies", "survives", "denied"}]

Terminate(w, h, M, sig) ==
  [w EXCEPT !.procs[h] = Without(@, {p \in M : sig[p] = "dies"})]

\* tmux send-keys -t target text C-m, once the binary is known to be there
SendKeys(w, h, target, t) == t.srv /\ TargetExists(w, h, target)

\* What a stop enumerates: signal outcomes when forced, a tmux environment
\* when graceful.
StopSigs(M, force) == IF force THEN SigOutcomes(M) ELSE { << >> }
StopEnvs(tr, force) == IF force THEN {AnyEnv} ELSE TmuxEnvs(tr)

Msg(m, id) == [msg |-> m, id |-> id]

\* ------------------------------------------------------------------ gridctl_working
detect_estates == sorted(valid)

EstatePattern(root, e) == IniArg(PathJoin(root, e))

is_estate_running(w, root, e) ==
  \E p \in Live(w, "local") : ArgMatch(EstatePattern(root, e), p)

is_robust_running(w) ==
  \E p \in Live(w, "local") : ArgMatch(<<"Robust">>, p)

\* subprocess.run(["tmux", ...]) raises FileNotFoundError without the binary.
ensure_tmux_session(w, t) ==
  IF ~t.bin THEN [w |-> w, ok |-> FALSE, exc |-> TRUE]
  ELSE IF w.session["local"] /\ t.srv THEN [w |-> w, ok |-> TRUE, exc |-> FALSE]
  ELSE IF t.srv
       THEN [w |-> [w EXCEPT !.session["local"] = TRUE], ok |-> TRUE, exc |-> FALSE]
  ELSE [w |-> w, ok |-> FALSE, exc |-> FALSE]

start_estate(w, root, e, t) ==
  IF is_estate_running(w, root, e) THEN [w |-> w, ret |-> None, exc |-> FALSE]
  ELSE LET s == ensure_tmux_session(w, t)
       IN  IF s.exc THEN [w |-> w, ret |-> None, exc |-> TRUE]
           ELSE IF ~s.ok THEN [w |-> s.w, ret |-> None, exc |-> FALSE]
           ELSE IF ~t.win THEN [w |-> s.w, ret |-> None, exc |-> FALSE]
           ELSE \* tmux new-window -t vgctl -n estate-<e> bash -c command
                LET full_session == Target(EstateWindow(e))
                    w2 == Launch(s.w, "local", EstateProc(e, PathJoin(root, e)))
                IN  [w |-> [w2 EXCEPT !.markers =
                                 WriteMarker(@, MarkerId(e), full_session)],
                     ret |-> full_session, exc |-> FALSE]

\* A graceful branch that clears the marker once the shutdown is sent.
GracefulStopClearing(w, id, t) ==
  IF id \in DOMAIN w.markers
  THEN LET sess == strip(w.markers[id])
       IN  IF ~t.bin THEN [w |-> w, ret |-> FALSE, exc |-> TRUE, sent |-> <<>>]
           ELSE [w |-> [w EXCEPT !.markers = Unlink(@, id)],
                 ret |-> SendKeys(w, "local", sess, t), exc |-> FALSE,
                 sent |-> << [host |-> "local", target |-> sess,
                              text |-> "shutdown"] >>]
  ELSE [w |-> w, ret |-> FALSE, exc |-> FALSE, sent |-> <<>>]

\* The graceful branch shared by stop_estate and stop_robust.
GracefulStop(w, id, t) ==
  IF id \in DOMAIN w.markers
  THEN LET sess == strip(w.markers[id])
       IN  IF ~t.bin THEN [w |-> w, ret |-> FALSE, exc |-> TRUE, sent |-> <<>>]
           ELSE [w |-> w, ret |-> SendKeys(w, "local", sess, t), exc |-> FALSE,
                 sent |-> << [host |-> "local", target |-> sess,
                              text |-> "shutdown"] >>]
  ELSE [w |-> w, ret |-> FALSE, exc |-> FALSE, sent |-> <<>>]

EstateMatches(w, root, e) ==
  {p \in Live(w, "local") : ArgMatch(EstatePattern(root, e), p)}

\* A stop_estate whose forced branch removes the marker only when it signalled
\* a process.
stop_estate_unlink_if_killed(w, root, e, force, sig, t) ==
  IF force
  THEN LET M == EstateMatches(w, root, e)
           w2 == Terminate(w, "local", M, sig)
           killed == \E p \in M : sig[p] # "denied"
       IN  [w |-> IF killed THEN [w2 EXCEPT !.markers = Unlink(@, MarkerId(e))] ELSE w2,
            ret |-> killed, exc |-> FALSE, sent |-> <<>>]
  ELSE GracefulStop(w, MarkerId(e), t)

stop_estate(w, root, e, force, sig, t) ==
  IF force
  THEN LET M == EstateMatches(w, root, e)
           w2 == Terminate(w, "local", M, sig)
       IN  [w |-> [w2 EXCEPT !.markers = Unlink(@, MarkerId(e))],
            ret |-> \E p \in M : sig[p] # "denied", exc |-> FALSE, sent |-> <<>>]
  ELSE GracefulStop(w, MarkerId(e), t)

\* exe: which of Robust.dll / Robust.exe the base directory holds.
RobustExe == {"dll", "exe", "none"}

start_robust(w, exe, t) ==
  IF is_robust_running(w) THEN [w |-> w, ret |-> None, exc |-> FALSE]
  ELSE IF exe = "none" THEN [w |-> w, ret |-> None, exc |-> FALSE]
  ELSE LET s == ensure_tmux_session(w, t)
       IN  IF s.exc THEN [w |-> w, ret |-> None, exc |-> TRUE]
           ELSE IF ~s.ok \/ ~t.win THEN [w |-> s.w, ret |-> None, exc |-> FALSE]
           ELSE LET w2 == Launch(s.w, "local", RobustProc)
                IN  [w |-> [w2 EXCEPT !.markers =
                                 WriteMarker(@, RobustId, Target(RobustWindow))],
                     ret |-> Target(RobustWindow), exc |-> FALSE]

RobustMatches(w) == {p \in Live(w, "local") : ArgMatch(<<"Robust">>, p)}

stop_robust(w, force, sig, t) ==
  IF force
  THEN LET M == RobustMatches(w)
           w2 == Terminate(w, "local", M, sig)
       IN  [w |-> [w2 EXCEPT !.markers = Unlink(@, RobustId)],
            ret |-> \E p \in M : sig[p] # "denied", exc |-> FALSE, sent |-> <<>>]
  ELSE GracefulStop(w, RobustId, t)

\* ------------------------------------------------------------------ vg.backend
\* The host a transport executes on.
HostOf(tr) == IF tr = "ssh" THEN "remote" ELSE "local"

\* A transport whose unknown variant runs the command on the local host.
RunUnknownAsLocal(tr, there, t) ==
  CASE tr = "ssh" -> IF t.reach /\ there THEN "ok" ELSE "fail"
    [] OTHER -> IF there THEN "ok" ELSE "raise"

\* Transport.run of a command whose binary is installed iff `there`:
\* "raise" (LocalTransport: FileNotFoundError), "ok" (exit code 0 possible) or
\* "fail" (non-zero exit code).
Run(tr, there, t) ==
  CASE tr = "local" -> IF there THEN "ok" ELSE "raise"
    [] tr = "ssh" -> IF t.reach /\ there THEN "ok" ELSE "fail"
    [] OTHER -> "fail"

\* tmux.ensure_tmux: "raise", or "ok"/"fail" for True/False
ensure_tmux(tr, t) == Run(tr, t.bin, t)

\* tmux.new_window(session "vgctl", name, command), p the process the command execs
new_window(w, tr, p, t) ==
  LET h == HostOf(tr)
      e == ensure_tmux(tr, t)
  IN  IF e = "raise" THEN [w |-> w, ret |-> None, exc |-> TRUE]
      ELSE IF e = "fail" THEN [w |-> w, ret |-> None, exc |-> FALSE]
      ELSE LET w1 == IF t.srv THEN [w EXCEPT !.session[h] = TRUE] ELSE w
           IN  IF w1.session[h] /\ t.win
               THEN [w |-> Launch(w1, h, p), ret |-> Target(p.win), exc |-> FALSE]
               ELSE [w |-> w1, ret |-> None, exc |-> FALSE]

\* tmux.send_text(target, text)
send_text(w, tr, target, text, t) ==
  LET e == ensure_tmux(tr, t)
  IN  IF e = "raise" THEN [ret |-> FALSE, exc |-> TRUE, sent |-> <<>>]
      ELSE IF e = "fail" THEN [ret |-> FALSE, exc |-> FALSE, sent |-> <<>>]
      ELSE [ret |-> SendKeys(w, HostOf(tr), target, t), exc |-> FALSE,
            sent |-> << [host |-> HostOf(tr), target |-> target, text |-> text] >>]

\* estates.running_instance: pgrep -f inidirectory=<Path(root)/estate>
running_instance(w, tr, root, e, t) ==
  /\ Run(tr, TRUE, t) = "ok"
  /\ \E p \in Live(w, HostOf(tr)) : CmdlineMatch(EstatePattern(root, e), p)

\* Whether Transport.run executes anything at all (UnknownTransport does not).
Executes(tr) == tr # "unknown"

\* Transport.exists(path), `present` telling whether the path is there
exists(tr, present, t) ==
  CASE tr = "local" -> present
    [] tr = "ssh" -> t.reach /\ present
    [] OTHER -> FALSE

\* What tmux capture-pane prints for a window.
PaneText == <<"pane">>

\* tmux.capture_output(target): the text, "" on any failure
capture_output(w, tr, target, t) ==
  LET e == ensure_tmux(tr, t)
  IN  IF e = "raise" THEN [ret |-> <<>>, exc |-> TRUE]
      ELSE IF e = "fail" THEN [ret |-> <<>>, exc |-> FALSE]
      ELSE IF t.srv /\ TargetExists(w, HostOf(tr), target)
           THEN [ret |-> PaneText, exc |-> FALSE]
           ELSE [ret |-> <<>>, exc |-> FALSE]

\* An entry of the estates root: a directory, a regular file or a symbolic
\* link to a directory; for the directory (reached), what OpenSim.ini is
\* ("none", a "file", a "dir") and what Regions holds ("none": no Regions,
\* "empty": no *.ini, "ini_file": a regular *.ini, "ini_dir": only a
\* directory named *.ini).
Entry(kind, ini, regions) == [kind |-> kind, ini |-> ini, regions |-> regions]

Entries ==
  {Entry("file", "none", "none")} \cup
  {Entry(k, i, r) : k \in {"dir", "link"}, i \in {"none", "file", "dir"},
                    r \in {"none", "empty", "ini_file", "ini_dir"}}

\* The estates root: whether it exists, what it holds itself, its entries.
Fs(ex, self, kids) == [exists |-> ex, self |-> self, kids |-> kids]
NoFs == Fs(FALSE, Entry("dir", "none", "none"), << >>)

\* A root holding exactly the valid estate directories S.
PlainFs(S) ==
  Fs(TRUE, Entry("dir", "none", "none"), [n \in S |-> Entry("dir", "file", "ini_file")])

\* _is_valid_estate_local(child): is_dir, OpenSim.ini exists, Regions/*.ini
_is_valid_estate_local(x) ==
  /\ x.kind \in {"dir", "link"}
  /\ x.ini # "none"
  /\ x.regions \in {"ini_file", "ini_dir"}

\* The test the remote loop applies to a line of find's output:
\* test -f OpenSim.ini, find Regions -name *.ini -type f
RemoteValid(x) == x.ini = "file" /\ x.regions = "ini_file"

\* Path(p).name
PathName(p) ==
  LET n == PathNorm(p)
      cut == CHOOSE i \in 0..Len(n) :
               /\ (i > 0 => n[i] = "/")
               /\ \A j \in (i + 1)..Len(n) : n[j] # "/"
  IN  SubSeq(n, cut + 1, Len(n))

\* estates.detect_estates(estates_root, tr)
backend_detect_estates(tr, F, root, t) ==
  IF tr = "local"
  THEN IF ~F.exists THEN <<>>
       ELSE sorted({n \in DOMAIN F.kids : _is_valid_estate_local(F.kids[n])})
  ELSE IF Run(tr, TRUE, t) # "ok" \/ ~F.exists THEN <<>>
  ELSE \* find root -maxdepth 1 -type d prints the root as given, then its
       \* directories; the line equal to root.rstrip("/") is skipped
       LET dirs == {n \in DOMAIN F.kids : F.kids[n].kind = "dir"}
           fromKids == {n \in dirs : RemoteValid(F.kids[n])}
           fromRoot == IF root # rstripSlash(root) /\ RemoteValid(F.self)
                       THEN {PathName(root)} ELSE {}
       IN  sorted(fromKids \cup fromRoot)

\* One call of a vg.backend function: its name, its argument, the tmux
\* environment it met, its result (ok: the truth value, val: the text or the
\* list), whether it raised, whether it executed a command anywhere.
BkCall(fn, arg, env, ok, val, exc, ran) ==
  [fn |-> fn, arg |-> arg, env |-> env, ok |-> ok, val |-> val, exc |-> exc, ran |-> ran]

NoBk == BkCall("none", <<>>, AnyEnv, FALSE, <<>>, FALSE, FALSE)

\* The message pump of EstateControlScreen: the button presses waiting in its
\* queue, the handlers it has invoked that have not returned, and whether the
\* operator has closed the progress dialog of the running batch.
Pump(inbox, running, closed) == [inbox |-> inbox, running |-> running, closed |-> closed]
NoPump == Pump(<<>>, <<>>, FALSE)

\* ------------------------------------------------------------------ gridctl_complete
\* The process of the window EstateControlScreen.start_estate asks for:
\* --inidirectory="{config.estates}/{estate}"
CompleteEstateProc(root, e) == EstateProc(e, RawJoin(root, e))

\* The shell of the window RobustControlScreen.start_robust asks for; its
\* command text names Robust.dll and Robust.exe.
RobustShellProc ==
  [win |-> RobustWindow,
   args |-> << <<"sh">>, <<"-c">>,
               <<"if", " ", "[ -f ", "Robust", ".dll", " ]", "...", "fi">> >>]

\* A start that records the session marker before looking at the result.
Complete_start_estate_marking_first(w, tr, root, e, t) ==
  LET r == new_window(w, tr, CompleteEstateProc(root, e), t)
      starting == Msg("Starting", e)
      marked == [r.w EXCEPT !.markers =
                   WriteMarker(@, MarkerId(e), Target(EstateWindow(e)))]
  IN  IF r.exc
      THEN [w |-> w, ok |-> FALSE, exc |-> TRUE,
            log |-> << starting, Msg("Error starting", e) >>]
      ELSE IF r.ret # None
      THEN [w |-> marked, ok |-> TRUE, exc |-> FALSE,
            log |-> << starting, Msg("Started", e) >>]
      ELSE [w |-> marked, ok |-> FALSE, exc |-> FALSE,
            log |-> << starting, Msg("Failed to start", e) >>]

\* EstateControlScreen.start_estate
Complete_start_estate(w, tr, root, e, t) ==
  LET r == new_window(w, tr, CompleteEstateProc(root, e), t)
      starting == Msg("Starting", e)
  IN  IF r.exc
      THEN [w |-> w, ok |-> FALSE, exc |-> TRUE,
            log |-> << starting, Msg("Error starting", e) >>]
      ELSE IF r.ret # None
      THEN [w |-> [r.w EXCEPT !.markers = WriteMarker(@, MarkerId(e), r.ret)],
            ok |-> TRUE, exc |-> FALSE,
            log |-> << starting, Msg("Started", e) >>]
      ELSE [w |-> r.w, ok |-> FALSE, exc |-> FALSE,
            log |-> << starting, Msg("Failed to start", e) >>]

\* pkill -f <pattern>, run by subprocess on the panel's own machine
PkillMatches(w, pat) == {p \in Live(w, "local") : CmdlineMatch(pat, p)}

\* The body shared by EstateControlScreen.stop_estate and
\* RobustControlScreen.stop_robust: id the marker, pat the pkill pattern,
\* choice the operator's answer (TRUE graceful, FALSE force).
StopBody(w, tr, id, pat, name, choice, sig, t) ==
  LET stopping == Msg("Stopping", name)
  IN  IF id \in DOMAIN w.markers
      THEN LET sess == strip(w.markers[id])
           IN  IF choice
               THEN LET r == send_text(w, tr, sess, "shutdown", t)
                    IN  IF r.exc
                        THEN [w |-> w, exc |-> TRUE, sent |-> <<>>,
                              log |-> << stopping, Msg("Error stopping", name) >>]
                        ELSE [w |-> w, exc |-> FALSE, sent |-> r.sent,
                              log |-> << stopping,
                                         Msg("Sent graceful shutdown", name) >>]
               ELSE LET w2 == Terminate(w, "local", PkillMatches(w, pat), sig)
                    IN  [w |-> [w2 EXCEPT !.markers = Unlink(@, id)],
                         exc |-> FALSE, sent |-> <<>>,
                         log |-> << stopping, Msg("Force killed", name) >>]
      ELSE [w |-> w, exc |-> FALSE, sent |-> <<>>,
            log |-> << stopping, Msg("No session file found", name) >>]

\* EstateControlScreen.stop_estate
Complete_stop_estate(w, tr, root, e, choice, sig, t) ==
  StopBody(w, tr, MarkerId(e), PathJoin(root, e), e, choice, sig, t)

\* RobustControlScreen.stop_robust
Complete_stop_robust(w, tr, choice, sig, t) ==
  StopBody(w, tr, RobustId, <<"Robust">>, RobustId, choice, sig, t)

\* RobustControlScreen.start_robust
Complete_start_robust(w, tr, t) ==
  LET r == new_window(w, tr, RobustShellProc, t)
      starting == Msg("Starting", RobustId)
  IN  IF r.exc
      THEN [w |-> w, ok |-> FALSE, exc |-> TRUE,
            log |-> << starting, Msg("Error starting", RobustId) >>]
      ELSE IF r.ret # None
      THEN [w |-> [r.w EXCEPT !.markers = WriteMarker(@, RobustId, r.ret)],
            ok |-> TRUE, exc |-> FALSE,
            log |-> << starting, Msg("Started", RobustId) >>]
      ELSE [w |-> r.w, ok |-> FALSE, exc |-> FALSE,
            log |-> << starting, Msg("Failed to start", RobustId) >>]

\* ------------------------------------------------------------------ vg.backend.transport
\* Python None where a string is optional.
Absent == "<None>"
\* bool(x) of an optional string
Truthy(x) == x \notin {Absent, ""}

\* str.lower() on the values a flag variable takes
lower(v) == CASE v = "YES" -> "yes" [] v = "On" -> "on" [] OTHER -> v

\* _env_bool(name), v being os.environ.get(name, "")
_env_bool(v) == lower(v) \in {"1", "true", "yes", "on"}

\* int(os.environ.get("VG_REMOTE_PORT", "22")); -1 stands for ValueError
ParsePort(v) == CASE v = "unset" -> 22 [] v = "2222" -> 2222 [] OTHER -> -1

TransportCfg(given, host, user, port, ident, pwd) ==
  [given |-> given, host |-> host, user |-> user, port |-> port,
   identity_file |-> ident, password |-> pwd]

\* cfg=None
NoCfg == TransportCfg(FALSE, Absent, Absent, 22, Absent, Absent)

\* The inputs of detect_transport: flag and VG_REMOTE_* variables, the cfg
\* argument, what the local machine holds, and how the ssh probe would end
\* ("nossh": no ssh client to execute).
Environs ==
  [force_ssh : {"", "1", "YES", "0"}, force_local : {"", "1", "On", "0"},
   env_host : {"", "h"}, env_user : {Absent, "u"},
   env_port : {"unset", "2222", "junk"},
   env_key : {Absent, "k"}, env_pwd : {Absent, "p"},
   cfg : {NoCfg} \cup
         {TransportCfg(TRUE, h, u, 22, k, pw) :
            h \in {Absent, "h"}, u \in {Absent, "u"},
            k \in {Absent, "k"}, pw \in {Absent, "p"}},
   tmux_available : BOOLEAN, base_exists : BOOLEAN, estates_exists : BOOLEAN,
   probe : {"ok", "fail", "nossh"}]

NoEnviron ==
  [force_ssh |-> "", force_local |-> "", env_host |-> "", env_user |-> Absent,
   env_port |-> "unset", env_key |-> Absent, env_pwd |-> Absent, cfg |-> NoCfg,
   tmux_available |-> FALSE, base_exists |-> FALSE, estates_exists |-> FALSE,
   probe |-> "fail"]

Made(kind, host, user, port, ident, pwd) ==
  [kind |-> kind, host |-> host, user |-> user, port |-> port,
   identity_file |-> ident, password |-> pwd]

LocalTransport == Made("local", Absent, Absent, 22, Absent, Absent)
UnknownTransport == Made("unknown", Absent, Absent, 22, Absent, Absent)
SSHTransport(host, user, port, ident, pwd) == Made("ssh", host, user, port, ident, pwd)
\* an exception leaves detect_transport
Raised == Made("raise", Absent, Absent, 22, Absent, Absent)
NotDetected == Made("none", Absent, Absent, 22, Absent, Absent)

\* _probe_ssh: "ok" / "fail" for True / False, "nossh" for FileNotFoundError
_probe_ssh(E, host) == IF host = "" THEN "fail" ELSE E.probe

\* detect_transport under VG_FORCE_SSH
ForcedRemote(E) ==
  LET host == E.env_host
      port == ParsePort(E.env_port)
      ident == E.env_key
      pwd == E.env_pwd
  IN  IF port < 0 THEN Raised
      ELSE IF Truthy(host) /\ (Truthy(ident) \/ Truthy(pwd)) /\ Truthy(ident)
      THEN CASE _probe_ssh(E, host) = "nossh" -> Raised
             [] _probe_ssh(E, host) = "ok" ->
                  SSHTransport(host, E.env_user, port, ident, pwd)
             [] OTHER -> UnknownTransport
      ELSE UnknownTransport

\* detect_transport's fallback to SSH from cfg, or from the environment
Fallback(E) ==
  LET host == IF E.cfg.given THEN E.cfg.host ELSE E.env_host
      user == IF E.cfg.given THEN E.cfg.user ELSE E.env_user
      port == IF E.cfg.given THEN E.cfg.port ELSE ParsePort(E.env_port)
      ident == IF E.cfg.given THEN E.cfg.identity_file ELSE E.env_key
      pwd == IF E.cfg.given THEN E.cfg.password ELSE E.env_pwd
  IN  IF port < 0 THEN Raised
      ELSE IF Truthy(host) /\ (Truthy(ident) \/ Truthy(pwd))
      THEN SSHTransport(host, user, port, ident, pwd)
      ELSE UnknownTransport

\* A detection that stays local only when no remote credentials are configured.
detect_transport_remote_first(E) ==
  IF _env_bool(E.force_ssh) THEN ForcedRemote(E)
  ELSE IF _env_bool(E.force_local) THEN LocalTransport
  ELSE IF Fallback(E).kind = "ssh" THEN Fallback(E)
  ELSE IF E.tmux_available /\ E.base_exists /\ E.estates_exists THEN LocalTransport
  ELSE Fallback(E)

detect_transport(E) ==
  IF _env_bool(E.force_ssh) THEN ForcedRemote(E)
  ELSE IF _env_bool(E.force_local) THEN LocalTransport
  ELSE IF E.tmux_available /\ E.base_exists /\ E.estates_exists THEN LocalTransport
  ELSE Fallback(E)

\* str(port) of the ports ParsePort yields
PortStr(port) == IF port = 2222 THEN "2222" ELSE "22"

\* SSHTransport._ssh_prefix of the transport T: the argument list, each
\* argument a text
_ssh_prefix(T) ==
  LET user_host == IF Truthy(T.user) THEN <<T.user, "@", T.host>> ELSE <<T.host>>
  IN  << <<"ssh">>, <<"-p">>, <<PortStr(T.port)>> >>
      \o (IF Truthy(T.identity_file) THEN << <<"-i">>, <<T.identity_file>> >> ELSE <<>>)
      \o <<user_host>>

\* The argument list SSHTransport.run hands to subprocess.run
ssh_cmd(T, command) == _ssh_prefix(T) \o command

\* ------------------------------------------------------------------ steps
Idle == pc = "idle"

SetWorld(w) ==
  /\ procs' = w.procs
  /\ session' = w.session
  /\ markers' = w.markers

Call(op, id, ok, exc, force, via) ==
  [op |-> op, id |-> id, ok |-> ok, exc |-> exc, force |-> force, via |-> via]

NoCall == Call("none", <<>>, FALSE, FALSE, FALSE, "none")

WorkingProc(e) == EstateProc(e, PathJoin(estatesRoot, e))

\* start_estate called from `via`; an exception leaves through the caller.
WorkingStart(e, via, before, okMsg, failMsg, pcExc) ==
  /\ CanLaunch("local", WorkingProc(e))
  /\ \E t \in TmuxEnvs("local") :
       LET r == start_estate(World, estatesRoot, e, t)
       IN  /\ SetWorld(r.w)
           /\ last' = Call("start_estate", e, r.ret # None, r.exc, FALSE, via)
           /\ log' = before \o (IF r.exc THEN <<>>
                                ELSE IF r.ret # None THEN << Msg(okMsg, e) >>
                                ELSE << Msg(failMsg, e) >>)
           /\ pc' = IF r.exc THEN pcExc ELSE "done"
  /\ sent' = <<>>

\* A direct call of gridctl_working.start_estate.
CallStartEstate(e) ==
  /\ Idle /\ panel = "working"
  /\ WorkingStart(e, "call", <<>>, "returned session", "returned None", "done")
  /\ UNCHANGED << cfgVars, batchVars, sel >>

\* A direct call of gridctl_working.stop_estate.
CallStopEstate(e, force) ==
  /\ Idle /\ panel = "working"
  /\ \E t \in StopEnvs("local", force),
        sig \in StopSigs(EstateMatches(World, estatesRoot, e), force) :
       LET r == stop_estate(World, estatesRoot, e, force, sig, t)
       IN  /\ SetWorld(r.w)
           /\ sent' = r.sent
           /\ last' = Call("stop_estate", e, r.ret, r.exc, force, "call")
  /\ log' = <<>>
  /\ pc' = "done"
  /\ UNCHANGED << cfgVars, batchVars, sel >>

\* A direct call of gridctl_working.start_robust.
CallStartRobust ==
  /\ Idle /\ panel = "working"
  /\ CanLaunch("local", RobustProc)
  /\ \E exe \in RobustExe :
     \E t \in (IF exe = "none" THEN {AnyEnv} ELSE TmuxEnvs("local")) :
       LET r == start_robust(World, exe, t)
       IN  /\ SetWorld(r.w)
           /\ last' = Call("start_robust", RobustId, r.ret # None, r.exc, FALSE, exe)
  /\ log' = <<>> /\ sent' = <<>>
  /\ pc' = "done"
  /\ UNCHANGED << cfgVars, batchVars, sel >>

\* A direct call of gridctl_working.stop_robust.
CallStopRobust(force) ==
  /\ Idle /\ panel = "working"
  /\ \E t \in StopEnvs("local", force), sig \in StopSigs(RobustMatches(World), force) :
       LET r == stop_robust(World, force, sig, t)
       IN  /\ SetWorld(r.w)
           /\ sent' = r.sent
           /\ last' = Call("stop_robust", RobustId, r.ret, r.exc, force, "call")
  /\ log' = <<>>
  /\ pc' = "done"
  /\ UNCHANGED << cfgVars, batchVars, sel >>

\* gridctl_working EstateControlScreen.start_one_estate, the operator picking e
W_start_one_estate(e) ==
  /\ Idle /\ panel = "working"
  /\ ~is_estate_running(World, estatesRoot, e)
  /\ WorkingStart(e, "start_one", << Msg("Starting", e) >>,
                  "Started", "Failed to start", "crashed")
  /\ UNCHANGED << cfgVars, batchVars, sel >>

\* gridctl_working EstateControlScreen.stop_one_estate
W_stop_one_estate(e, force) ==
  /\ Idle /\ panel = "working"
  /\ is_estate_running(World, estatesRoot, e)
  /\ \E t \in StopEnvs("local", force),
        sig \in StopSigs(EstateMatches(World, estatesRoot, e), force) :
       LET r == stop_estate(World, estatesRoot, e, force, sig, t)
       IN  /\ SetWorld(r.w)
           /\ sent' = r.sent
           /\ last' = Call("stop_estate", e, r.ret, r.exc, force, "stop_one")
           /\ log' = << Msg("Stopping", e) >> \o
                     (IF r.exc THEN <<>>
                      ELSE IF r.ret THEN << Msg("Stopped", e) >>
                      ELSE << Msg("Failed to stop", e) >>)
           /\ pc' = IF r.exc THEN "crashed" ELSE "done"
  /\ UNCHANGED << cfgVars, batchVars, sel >>

\* gridctl_working EstateControlScreen.restart_one_estate up to its sleep(2)
W_restart_begin(e) ==
  /\ Idle /\ panel = "working"
  /\ IF is_estate_running(World, estatesRoot, e)
     THEN \E t \in TmuxEnvs("local") :
            LET r == stop_estate(World, estatesRoot, e, FALSE, << >>, t)
            IN  /\ sent' = r.sent
                /\ last' = Call("stop_estate", e, r.ret, r.exc, FALSE, "restart")
                /\ pc' = IF r.exc THEN "crashed" ELSE "w_restart_sleep"
                /\ pauses' = IF r.exc THEN <<>> ELSE <<2>>
     ELSE /\ sent' = <<>> /\ pauses' = <<>>
          /\ last' = NoCall
          /\ pc' = "w_restart_sleep"
  /\ sel' = e
  /\ log' = << Msg("Restarting", e) >>
  /\ UNCHANGED << cfgVars, procs, session, markers, queue, idx, attempts >>

\* ... and from there on
W_restart_resume ==
  /\ pc = "w_restart_sleep" /\ panel = "working"
  /\ WorkingStart(sel, "restart", log, "Restarted", "Failed to restart", "crashed")
  /\ UNCHANGED << cfgVars, batchVars, sel >>

\* The estates a running check can report as running, resp. as stopped (an
\* unreachable remote host reports every estate stopped).
RunningEstates ==
  {e \in valid : \E t \in TmuxEnvs(transport) :
                    running_instance(World, transport, estatesRoot, e, t)}
StoppedEstates ==
  {e \in valid : \E t \in TmuxEnvs(transport) :
                    ~running_instance(World, transport, estatesRoot, e, t)}

CompleteStart(e, via) ==
  /\ CanLaunch(HostOf(transport), CompleteEstateProc(estatesRoot, e))
  /\ \E t \in TmuxEnvs(transport) :
       LET r == Complete_start_estate(World, transport, estatesRoot, e, t)
       IN  /\ SetWorld(r.w)
           /\ last' = Call("start_estate", e, r.ok, r.exc, FALSE, via)
           /\ log' = r.log
  /\ sent' = <<>>

\* gridctl_complete EstateControlScreen.start_one_estate, the operator picking e
C_start_one_estate(e) ==
  /\ Idle /\ panel = "complete"
  /\ e \in StoppedEstates
  /\ CompleteStart(e, "start_one")
  /\ pc' = "done"
  /\ UNCHANGED << cfgVars, batchVars, sel >>

CompleteStop(e, choice, via) ==
  \E t \in StopEnvs(transport, ~choice),
     sig \in StopSigs(PkillMatches(World, PathJoin(estatesRoot, e)), ~choice) :
       LET r == Complete_stop_estate(World, transport, estatesRoot, e, choice, sig, t)
       IN  /\ SetWorld(r.w)
           /\ sent' = r.sent
           /\ log' = r.log
           /\ last' = Call("stop_estate", e, ~r.exc, r.exc, ~choice, via)

\* gridctl_complete EstateControlScreen.stop_one_estate
C_stop_one_estate(e, choice) ==
  /\ Idle /\ panel = "complete"
  /\ e \in RunningEstates
  /\ CompleteStop(e, choice, "stop_one")
  /\ pc' = "done"
  /\ UNCHANGED << cfgVars, batchVars, sel >>

\* gridctl_complete EstateControlScreen.restart_one_estate up to its sleep(2)
C_restart_begin(e, choice) ==
  /\ Idle /\ panel = "complete"
  /\ CompleteStop(e, choice, "restart")
  /\ pc' = "c_restart_sleep" /\ sel' = e /\ pauses' = <<2>>
  /\ UNCHANGED << cfgVars, queue, idx, attempts >>

\* ... and from there on
C_restart_resume ==
  /\ pc = "c_restart_sleep" /\ panel = "complete"
  /\ CompleteStart(sel, "restart")
  /\ pc' = "done"
  /\ UNCHANGED << cfgVars, batchVars, sel >>

\* gridctl_complete RobustControlScreen.start_robust
C_start_robust ==
  /\ Idle /\ panel = "complete"
  /\ CanLaunch(HostOf(transport), RobustShellProc)
  /\ \E t \in TmuxEnvs(transport) :
       LET r == Complete_start_robust(World, transport, t)
       IN  /\ SetWorld(r.w)
           /\ last' = Call("start_robust", RobustId, r.ok, r.exc, FALSE, "robust")
           /\ log' = r.log
  /\ sent' = <<>>
  /\ pc' = "done"
  /\ UNCHANGED << cfgVars, batchVars, sel >>

\* gridctl_complete RobustControlScreen.stop_robust
C_stop_robust(choice) ==
  /\ Idle /\ panel = "complete"
  /\ \E t \in StopEnvs(transport, ~choice),
        sig \in StopSigs(PkillMatches(World, <<"Robust">>), ~choice) :
       LET r == Complete_stop_robust(World, transport, choice, sig, t)
       IN  /\ SetWorld(r.w)
           /\ sent' = r.sent
           /\ log' = r.log
           /\ last' = Call("stop_robust", RobustId, ~r.exc, r.exc, ~choice, "robust")
  /\ pc' = "done"
  /\ UNCHANGED << cfgVars, batchVars, sel >>

\* ------------------------------------------------------------------ batches
batch_size == 3
batch_delay == 20

\* A pause that cools down after every full batch, the last one included.
BatchPauseEveryBatch(i, n) ==
  IF (i + 1) % batch_size = 0 THEN batch_delay ELSE 2

\* The sleep after the start of item i (counted from 0) of n.
BatchPause(i, n) ==
  IF (i + 1) % batch_size = 0 /\ i + 1 < n THEN batch_delay ELSE 2

Attempt(e, out, alive) == [id |-> e, out |-> out, alive |-> alive]

\* Whether a process launched for estate e itself is alive on host h.
OwnProcess(h, e) == \E p \in BagToSet(procs[h]) : p.win = EstateWindow(e)

BeginBatch(op, list, where, emptyMsg) ==
  /\ queue' = list /\ idx' = 0 /\ pauses' = <<>> /\ attempts' = <<>>
  /\ sent' = <<>> /\ sel' = <<>>
  /\ last' = Call(op, <<>>, FALSE, FALSE, FALSE, "batch")
  /\ IF list = <<>>
     THEN pc' = "done" /\ log' = << Msg(emptyMsg, <<>>) >>
     ELSE pc' = where /\ log' = <<>>
  /\ UNCHANGED << cfgVars, procs, session, markers >>

FinishBatch(where, doneMsg) ==
  /\ pc = where /\ idx = Len(queue)
  /\ log' = Append(log, Msg(doneMsg, <<>>))
  /\ pauses' = Append(pauses, 1)
  /\ last' = [last EXCEPT !.ok = TRUE]
  /\ pc' = "done"
  /\ UNCHANGED << cfgVars, procs, session, markers, sel, queue, idx, sent, attempts >>

\* gridctl_working EstateControlScreen.start_all_estates, confirmed, to its loop
W_start_all_begin ==
  /\ Idle /\ panel = "working"
  /\ LET stopped_estates ==
           SelectSeq(detect_estates, LAMBDA e : ~is_estate_running(World, estatesRoot, e))
     IN  /\ \A i \in 1..Len(stopped_estates) :
               CanLaunch("local", WorkingProc(stopped_estates[i]))
         /\ BeginBatch("start_all", stopped_estates, "w_start_all",
                       "All estates already running")

\* one turn of its loop, up to the sleep
W_start_all_item ==
  /\ pc = "w_start_all" /\ idx < Len(queue)
  /\ LET estate == queue[idx + 1]
     IN \E t \in TmuxEnvs("local") :
         LET r == start_estate(World, estatesRoot, estate, t)
         IN  /\ SetWorld(r.w)
             /\ attempts' = Append(attempts,
                   Attempt(estate, IF r.exc THEN "raised"
                                   ELSE IF r.ret # None THEN "ok" ELSE "failed", FALSE))
             /\ IF r.exc
                THEN /\ log' = log \o << Msg("Starting", estate), Msg("Error", estate) >>
                     /\ last' = [last EXCEPT !.exc = TRUE]
                     /\ pc' = "done"
                     /\ UNCHANGED << idx, pauses >>
                ELSE /\ log' = log \o << Msg("Starting", estate),
                                        Msg(IF r.ret # None THEN "Started"
                                            ELSE "Failed to start", estate) >>
                     /\ pauses' = Append(pauses, BatchPause(idx, Len(queue)))
                     /\ idx' = idx + 1
                     /\ UNCHANGED << last, pc >>
  /\ UNCHANGED << cfgVars, sel, queue, sent >>

\* after its loop
W_start_all_finish == FinishBatch("w_start_all", "All estates started")

\* gridctl_working EstateControlScreen.stop_all_estates, confirmed, to its loop
W_stop_all_begin ==
  /\ Idle /\ panel = "working"
  /\ BeginBatch("stop_all",
                SelectSeq(detect_estates, LAMBDA e : is_estate_running(World, estatesRoot, e)),
                "w_stop_all", "No running estates to stop")

\* one turn of its loop, up to the sleep
W_stop_all_item ==
  /\ pc = "w_stop_all" /\ idx < Len(queue)
  /\ LET estate == queue[idx + 1]
     IN \E t \in TmuxEnvs("local") :
         LET r == stop_estate(World, estatesRoot, estate, FALSE, << >>, t)
             out == IF r.exc THEN "raised"
                    ELSE IF MarkerId(estate) \notin DOMAIN markers THEN "no marker"
                    ELSE IF r.ret THEN "ok" ELSE "failed"
         IN  /\ attempts' = Append(attempts,
                                   Attempt(estate, out, OwnProcess("local", estate)))
             /\ sent' = sent \o r.sent
             /\ IF r.exc
                THEN /\ log' = log \o << Msg("Stopping", estate), Msg("Error", estate) >>
                     /\ last' = [last EXCEPT !.exc = TRUE]
                     /\ pc' = "done"
                     /\ UNCHANGED << idx, pauses >>
                ELSE /\ log' = log \o << Msg("Stopping", estate),
                                        Msg(IF r.ret THEN "Stopped"
                                            ELSE "Failed to stop", estate) >>
                     /\ pauses' = Append(pauses, 2)
                     /\ idx' = idx + 1
                     /\ UNCHANGED << last, pc >>
  /\ UNCHANGED << cfgVars, procs, session, markers, sel, queue >>

\* after its loop
W_stop_all_finish == FinishBatch("w_stop_all", "All estates stopped")

\* estates.detect_estates over the transport: the local scan, or the remote find
estates_detect_estates(tr, t) ==
  IF tr = "local" THEN sorted(valid)
  ELSE IF Run(tr, TRUE, t) = "ok" THEN sorted(valid) ELSE <<>>

\* gridctl_complete EstateControlScreen.start_all_estates, confirmed, to its loop
C_start_all_begin ==
  /\ Idle /\ panel = "complete"
  /\ \E t \in {x \in TmuxEnvs(transport) : x.bin /\ x.srv /\ x.win} \cup
              {x \in TmuxEnvs(transport) : ~x.reach} :
       LET stopped_estates ==
             SelectSeq(estates_detect_estates(transport, t),
                    LAMBDA e : ~running_instance(World, transport, estatesRoot, e, t))
       IN  /\ \A i \in 1..Len(stopped_estates) :
                 CanLaunch(HostOf(transport),
                           CompleteEstateProc(estatesRoot, stopped_estates[i]))
           /\ BeginBatch("start_all", stopped_estates, "c_start_all",
                         "All estates already running")

\* one turn of its loop, up to the sleep
C_start_all_item ==
  /\ pc = "c_start_all" /\ idx < Len(queue)
  /\ LET estate == queue[idx + 1]
     IN \E t \in TmuxEnvs(transport) :
         LET r == Complete_start_estate(World, transport, estatesRoot, estate, t)
         IN  /\ SetWorld(r.w)
             /\ attempts' = Append(attempts,
                   Attempt(estate, IF r.exc THEN "raised"
                                   ELSE IF r.ok THEN "ok" ELSE "failed", FALSE))
             /\ log' = log \o r.log
  /\ pauses' = Append(pauses, BatchPause(idx, Len(queue)))
  /\ idx' = idx + 1
  /\ UNCHANGED << cfgVars, sel, queue, sent, last, pc >>

\* after its loop
C_start_all_finish == FinishBatch("c_start_all", "All estates started")

\* gridctl_complete EstateControlScreen.stop_all_estates, confirmed, to its loop
C_stop_all_begin ==
  /\ Idle /\ panel = "complete"
  /\ \E t \in {x \in TmuxEnvs(transport) : x.bin /\ x.srv /\ x.win} \cup
              {x \in TmuxEnvs(transport) : ~x.reach} :
       BeginBatch("stop_all",
                  SelectSeq(estates_detect_estates(transport, t),
                         LAMBDA e : running_instance(World, transport, estatesRoot, e, t)),
                  "c_stop_all", "No running estates to stop")

\* one turn of its loop, up to the sleep
C_stop_all_item ==
  /\ pc = "c_stop_all" /\ idx < Len(queue)
  /\ LET estate == queue[idx + 1]
         alive == OwnProcess(HostOf(transport), estate)
     IN IF MarkerId(estate) \in DOMAIN markers
        THEN \E t \in TmuxEnvs(transport) :
               LET r == send_text(World, transport, strip(markers[MarkerId(estate)]),
                                  "shutdown", t)
                   out == IF r.exc THEN "raised"
                          ELSE IF r.ret THEN "ok" ELSE "failed"
               IN  /\ attempts' = Append(attempts, Attempt(estate, out, alive))
                   /\ sent' = sent \o r.sent
                   /\ IF r.exc
                      THEN /\ log' = log \o << Msg("Stopping", estate),
                                              Msg("Error", estate) >>
                           /\ last' = [last EXCEPT !.exc = TRUE]
                           /\ pc' = "done"
                           /\ UNCHANGED << idx, pauses >>
                      ELSE /\ log' = Append(log, Msg("Stopping", estate))
                           /\ pauses' = Append(pauses, 2)
                           /\ idx' = idx + 1
                           /\ UNCHANGED << last, pc >>
        ELSE /\ attempts' = Append(attempts, Attempt(estate, "no marker", alive))
             /\ log' = Append(log, Msg("Stopping", estate))
             /\ pauses' = Append(pauses, 2)
             /\ idx' = idx + 1
             /\ UNCHANGED << sent, last, pc >>
  /\ UNCHANGED << cfgVars, procs, session, markers, sel, queue >>

\* after its loop
C_stop_all_finish == FinishBatch("c_stop_all", "All estates stopped")

\* A process ends: it shut down, was terminated, or crashed.
ProcExit(h, p) ==
  /\ pc \notin {"done", "crashed"}
  /\ p \in BagToSet(procs[h])
  /\ procs' = [procs EXCEPT ![h] = @ (-) SetToBag({p})]
  /\ UNCHANGED << cfgVars, batchVars, session, markers, pc, sel, log, sent, last >>

\* The handler returns to the event loop; what it reported is not kept.
Return ==
  /\ pc = "done"
  /\ pc' = "idle" /\ sel' = <<>>
  /\ log' = <<>> /\ sent' = <<>> /\ last' = NoCall
  /\ queue' = <<>> /\ idx' = 0 /\ pauses' = <<>> /\ attempts' = <<>>
  /\ UNCHANGED << cfgVars, procs, session, markers >>

AllProcs == UNION {BagToSet(procs[h]) : h \in Hosts}

\* ------------------------------------------------------------------ lifecycle
\* A panel opened on a host where nothing runs and no marker is left.
InitLife ==
  /\ estatesRoot \in RootSpellings
  /\ valid = Names(LifeEstates)
  /\ \/ panel = "working" /\ transport = "local"
     \/ panel = "complete" /\ transport \in {"local", "ssh", "unknown"}
  /\ procs = [h \in Hosts |-> EmptyBag]
  /\ session = [h \in Hosts |-> FALSE]
  /\ markers = << >>
  /\ pc = "idle" /\ sel = <<>> /\ queue = <<>> /\ idx = 0
  /\ log = <<>> /\ sent = <<>> /\ pauses = <<>> /\ attempts = <<>>
  /\ last = NoCall
  /\ environ = NoEnviron /\ detected = NotDetected
  /\ fs = NoFs /\ bk = NoBk /\ pump = NoPump

NextLife ==
  \/ \E e \in valid : CallStartEstate(e)
  \/ \E e \in valid, force \in BOOLEAN : CallStopEstate(e, force)
  \/ CallStartRobust
  \/ \E force \in BOOLEAN : CallStopRobust(force)
  \/ \E e \in valid : W_start_one_estate(e)
  \/ \E e \in valid, force \in BOOLEAN : W_stop_one_estate(e, force)
  \/ \E e \in valid : W_restart_begin(e)
  \/ W_restart_resume
  \/ \E e \in valid : C_start_one_estate(e)
  \/ \E e \in valid, choice \in BOOLEAN : C_stop_one_estate(e, choice)
  \/ \E e \in valid, choice \in BOOLEAN : C_restart_begin(e, choice)
  \/ C_restart_resume
  \/ C_start_robust
  \/ \E choice \in BOOLEAN : C_stop_robust(choice)
  \/ Return
  \/ \E h \in Hosts, p \in AllProcs : ProcExit(h, p)

SpecLife == InitLife /\ [][NextLife]_vars

\* ------------------------------------------------------------------ lifecycle properties
\* C1: in the gridctl_complete panel at most one launched process (tmux
\* window) exists for any one estate at any time; a second start is rejected.
C1_OneProcessPerEstate ==
  panel = "complete" =>
    \A h \in Hosts : \A p \in BagToSet(procs[h]) :
      p.win # RobustWindow => CopiesIn(p, procs[h]) <= 1

\* C2: gridctl_working.start_estate called for an estate that its previous call
\* left running (own process alive, marker holding its session) creates no new
\* window, leaves the marker unchanged and comes back as a success.
C2_SecondStartIsNoOpSuccess ==
  [][ ( /\ pc = "idle" /\ panel = "working"
        /\ last'.op = "start_estate" /\ last'.via = "call"
        /\ OwnProcess("local", last'.id)
        /\ MarkerId(last'.id) \in DOMAIN markers
        /\ markers[MarkerId(last'.id)] = Target(EstateWindow(last'.id)) )
      => (procs' = procs /\ markers' = markers /\ last'.ok) ]_vars

C4_GracefulStopKeepsRegistry ==
  [][ (pc = "idle" /\ last'.op \in {"stop_estate", "stop_robust"} /\ ~last'.force) =>
        LET id == IF last'.op = "stop_robust" THEN RobustId ELSE MarkerId(last'.id)
            name == IF last'.op = "stop_robust" THEN RobustId ELSE last'.id
        IN  /\ markers' = markers /\ procs' = procs
            /\ IF id \in DOMAIN markers
               THEN /\ sent' \in { <<>>, << [host |-> HostOf(transport),
                                            target |-> strip(markers[id]),
                                            text |-> "shutdown"] >> }
                    /\ (~last'.exc /\ transport = "local") => sent' # <<>>
               ELSE /\ sent' = <<>> /\ ~last'.exc
                    /\ panel = "working" => ~last'.ok
                    /\ panel = "complete" =>
                         log' = << Msg("Stopping", name),
                                   Msg("No session file found", name) >> ]_vars

\* A graceful stop has sent the shutdown to a live estate: the marker is still
\* there and so is the process.
C4_Witness ==
  /\ pc = "done" /\ last.op = "stop_estate" /\ ~last.force
  /\ sent = << [host |-> HostOf(transport),
                target |-> Target(EstateWindow(last.id)), text |-> "shutdown"] >>
  /\ MarkerId(last.id) \in DOMAIN markers
  /\ OwnProcess(HostOf(transport), last.id)

\* C5: a start of an estate or of robust that fails reports the failure
\* without an exception leaving the start operation, and leaves the markers
\* exactly as they were.
C5_FailedStartDoesNotRaise ==
  [][ ( /\ pc \in {"idle", "w_restart_sleep", "c_restart_sleep"}
        /\ last'.op \in {"start_estate", "start_robust"}
        /\ ~last'.ok )
      => (markers' = markers /\ ~(panel = "working" /\ last'.exc)) ]_vars

\* ------------------------------------------------------------------ batch runs
InitBatch ==
  /\ estatesRoot \in RootSpellings
  /\ valid = Names(BatchEstates)
  /\ \/ panel = "working" /\ transport = "local"
     \/ panel = "complete" /\ transport \in {"local", "ssh", "unknown"}
  /\ procs = [h \in Hosts |-> EmptyBag]
  /\ session = [h \in Hosts |-> FALSE]
  /\ markers = << >>
  /\ pc = "idle" /\ sel = <<>> /\ queue = <<>> /\ idx = 0
  /\ log = <<>> /\ sent = <<>> /\ pauses = <<>> /\ attempts = <<>>
  /\ last = NoCall
  /\ environ = NoEnviron /\ detected = NotDetected
  /\ fs = NoFs /\ bk = NoBk /\ pump = NoPump

NextBatch ==
  \/ W_start_all_begin
  \/ W_start_all_item
  \/ W_start_all_finish
  \/ W_stop_all_begin
  \/ W_stop_all_item
  \/ W_stop_all_finish
  \/ C_start_all_begin
  \/ C_start_all_item
  \/ C_start_all_finish
  \/ C_stop_all_begin
  \/ C_stop_all_item
  \/ C_stop_all_finish
  \/ \E e \in valid : W_stop_one_estate(e, TRUE)
  \/ \E e \in valid : C_stop_one_estate(e, FALSE)
  \/ Return
  \/ \E h \in Hosts, p \in AllProcs : ProcExit(h, p)

SpecBatch == InitBatch /\ [][NextBatch]_vars

\* start_all_estates alone, with the processes it starts ending on their own
NextStartAll ==
  \/ W_start_all_begin
  \/ W_start_all_item
  \/ W_start_all_finish
  \/ C_start_all_begin
  \/ C_start_all_item
  \/ C_start_all_finish
  \/ Return
  \/ \E h \in Hosts, p \in AllProcs : ProcExit(h, p)

SpecStartAll == InitBatch /\ [][NextStartAll]_vars

\* ------------------------------------------------------------------ batch properties
\* C6: in start_all_estates over C stopped estates the pause after the k-th
\* start is the 20-unit cooldown exactly when k is a multiple of 3 and k < C,
\* and the 2-unit pause otherwise; one pause follows each start.
C6_CooldownSchedule ==
  (last.op = "start_all" /\ pc \in {"w_start_all", "c_start_all", "done"}) =>
    /\ Len(pauses) >= idx
    /\ pc # "done" => Len(pauses) = idx
    /\ \A k \in 1..idx :
         pauses[k] = IF k % 3 = 0 /\ k < Len(queue) THEN 20 ELSE 2

\* A start_all over four stopped estates has finished: one cooldown, after
\* the third start.
C6_Witness ==
  /\ pc = "done" /\ last.op = "start_all" /\ last.ok
  /\ Len(queue) = 4
  /\ pauses = << 2, 2, 20, 2, 1 >>

\* C7: when a batch is over, each estate selected at its start has had exactly
\* one attempt, whatever failed or was raised on the way.
C7_EveryItemAttempted ==
  (pc = "done" /\ last.op \in {"start_all", "stop_all"}) =>
    [i \in 1..Len(attempts) |-> attempts[i].id] = queue

\* C8: stop_all_estates issues the shutdown command once for each estate that
\* is running, in ascending order of name, and when every stop succeeded no
\* estate of the batch is running once it has finished.
C8_StopAllStopsEveryRunning ==
  (pc = "done" /\ last.op = "stop_all" /\ ~last.exc) =>
    /\ [i \in 1..Len(attempts) |-> attempts[i].id] = queue
    /\ \A i \in 1..Len(queue) : \A j \in 1..Len(queue) :
         i < j => LexLess(queue[i], queue[j])
    /\ \A i \in 1..Len(attempts) :
         attempts[i].alive => attempts[i].out # "no marker"
    /\ (\A i \in 1..Len(attempts) : attempts[i].out = "ok") =>
         \A i \in 1..Len(queue) : ~OwnProcess(HostOf(transport), queue[i])

\* C9: the final report of a batch in which an item failed or was skipped
\* does not announce that all estates were started (stopped), as a report
\* naming the failed estates must not.
C9_FinalReportReflectsFailures ==
  ( /\ pc = "done" /\ last.op \in {"start_all", "stop_all"}
    /\ \E i \in 1..Len(attempts) : attempts[i].out # "ok" ) =>
    log[Len(log)].msg \notin {"All estates started", "All estates stopped"}

\* ------------------------------------------------------------------ transport detection
InitDetect ==
  /\ environ \in Environs
  /\ detected = NotDetected
  /\ transport = "undetected"
  /\ fs = NoFs /\ bk = NoBk /\ pump = NoPump
  /\ estatesRoot \in {<<"/", "x">>}
  /\ valid = {}
  /\ panel = "complete"
  /\ procs = [h \in Hosts |-> EmptyBag]
  /\ session = [h \in Hosts |-> FALSE]
  /\ markers = << >>
  /\ pc = "idle" /\ sel = <<>> /\ queue = <<>> /\ idx = 0
  /\ log = <<>> /\ sent = <<>> /\ pauses = <<>> /\ attempts = <<>>
  /\ last = NoCall

\* transport = detect_transport(base, estates, cfg)
Detect ==
  /\ detected = NotDetected
  /\ detected' = detect_transport(environ)
  /\ transport' = IF detected'.kind = "raise" THEN transport ELSE detected'.kind
  /\ UNCHANGED << estatesRoot, valid, panel, environ, procs, session, markers,
                  pc, sel, queue, idx, log, sent, pauses, attempts, last, fs, bk,
                  pump >>

\* transport.run(command) on the SSHTransport that was detected
DetectedRun ==
  /\ detected.kind = "ssh" /\ bk = NoBk
  /\ \E t \in TmuxEnvs("ssh"), command \in { << <<"tmux">>, <<"-V">> >>, << <<"true">> >> } :
       bk' = BkCall("ssh_run", ssh_cmd(detected, command), t,
                    Run("ssh", TRUE, t) = "ok", <<>>, FALSE, TRUE)
  /\ UNCHANGED << estatesRoot, valid, panel, environ, procs, session, markers, pc,
                  sel, queue, idx, log, sent, pauses, attempts, last, fs,
                  detected, transport, pump >>

\* The TransportConfig VergeGridApp.__init__ builds from its settings S:
\* mode, host, user and port only
AppTransportConfig(S) ==
  TransportCfg(TRUE, IF Truthy(S.host) THEN S.host ELSE Absent,
               IF Truthy(S.user) THEN S.user ELSE Absent, S.port, Absent, Absent)

\* VergeGridApp.__init__, environ.cfg standing for the loaded settings
\* (remote_host, remote_user, remote_port, remote_key, remote_password)
AppInit ==
  /\ detected = NotDetected
  /\ detected' = detect_transport([environ EXCEPT !.cfg = AppTransportConfig(environ.cfg)])
  /\ transport' = IF detected'.kind = "raise" THEN transport ELSE detected'.kind
  /\ last' = Call("VergeGridApp", <<>>, detected'.kind # "raise", detected'.kind = "raise",
                  FALSE, "init")
  /\ UNCHANGED << estatesRoot, valid, panel, environ, procs, session, markers,
                  pc, sel, queue, idx, log, sent, pauses, attempts, fs, bk, pump >>

NextDetect == Detect \/ DetectedRun \/ AppInit

SpecDetect == InitDetect /\ [][NextDetect]_vars

\* C10 as stated: detect_transport returns a LocalTransport whenever base and
\* estates exist locally and tmux is on PATH, whatever the remote settings.
C10_LocalWheneverLocalWorks ==
  ( /\ detected # NotDetected
    /\ environ.tmux_available /\ environ.base_exists /\ environ.estates_exists )
  => detected = LocalTransport

\* C10, amended: the same, when VG_FORCE_SSH is not set to a true value.
C10_LocalUnlessForcedRemote ==
  ( /\ detected # NotDetected
    /\ ~_env_bool(environ.force_ssh)
    /\ environ.tmux_available /\ environ.base_exists /\ environ.estates_exists )
  => detected = LocalTransport

\* Local was returned although cfg and the environment both configure a remote.
C10_Witness ==
  /\ detected = LocalTransport
  /\ ~_env_bool(environ.force_ssh) /\ ~_env_bool(environ.force_local)
  /\ environ.tmux_available /\ environ.base_exists /\ environ.estates_exists
  /\ environ.cfg.given /\ environ.cfg.host = "h" /\ environ.cfg.password = "p"
  /\ environ.env_host = "h" /\ environ.env_key = "k"

\* C11: under VG_FORCE_SSH (port well-formed, ssh client installed)
\* detect_transport returns an SSHTransport exactly when a remote host and an
\* identity file or a password are configured and the probe succeeds, returns
\* UnknownTransport in every other case, and never returns Local.
C11_ForcedRemoteSSHOrUnknown ==
  ( /\ detected # NotDetected
    /\ _env_bool(environ.force_ssh)
    /\ ParsePort(environ.env_port) >= 0 /\ environ.probe # "nossh" )
  => LET configured == /\ Truthy(environ.env_host)
                       /\ Truthy(environ.env_key) \/ Truthy(environ.env_pwd)
     IN  /\ detected.kind # "local"
         /\ (configured /\ environ.probe = "ok") => detected.kind = "ssh"
         /\ ~(configured /\ environ.probe = "ok") => detected = UnknownTransport

\* ------------------------------------------------------------------ vg.backend calls
\* The processes found running when the panel opens: per estate none, one
\* launched with the joined path, or one launched with the raw path.
FoundProcs(L) ==
  {EstateProc(e, PathJoin(estatesRoot, e)) : e \in {x \in valid : L[x] = "path"}} \cup
  {EstateProc(e, RawJoin(estatesRoot, e)) : e \in {x \in valid : L[x] = "raw"}}

InitBackend ==
  /\ estatesRoot \in RootSpellings
  /\ valid = Names(BackendEstates)
  /\ panel = "complete"
  /\ transport \in {"local", "ssh", "unknown"}
  /\ \E L \in [valid -> {"none", "path", "raw"}] :
       procs = [h \in Hosts |-> IF h = HostOf(transport)
                                THEN SetToBag(FoundProcs(L)) ELSE EmptyBag]
  /\ \E b \in BOOLEAN : session = [h \in Hosts |-> b /\ h = HostOf(transport)]
  /\ fs \in {NoFs, PlainFs(valid)}
  /\ markers = << >>
  /\ pc = "idle" /\ sel = <<>> /\ queue = <<>> /\ idx = 0
  /\ log = <<>> /\ sent = <<>> /\ pauses = <<>> /\ attempts = <<>>
  /\ last = NoCall
  /\ environ = NoEnviron /\ detected = NotDetected
  /\ bk = NoBk /\ pump = NoPump

bkRest == << estatesRoot, valid, panel, transport, environ, detected, fs, pump,
             markers, pc, sel, queue, idx, log, sent, pauses, attempts, last >>

\* tr.run(command), the command's binary installed or not
BkRun ==
  /\ bk = NoBk
  /\ \E t \in TmuxEnvs(transport), there \in BOOLEAN :
       LET r == Run(transport, there, t)
       IN  bk' = BkCall("run", <<>>, t, r = "ok", <<>>, r = "raise", Executes(transport))
  /\ UNCHANGED << bkRest, procs, session >>

\* tr.exists(path), the path there or not
BkExists ==
  /\ bk = NoBk
  /\ \E t \in TmuxEnvs(transport), present \in BOOLEAN :
       bk' = BkCall("exists", <<>>, t, exists(transport, present, t), <<>>, FALSE,
                    transport = "ssh")
  /\ UNCHANGED << bkRest, procs, session >>

BkDetect ==
  /\ bk = NoBk
  /\ \E t \in TmuxEnvs(transport) :
       LET names == backend_detect_estates(transport, fs, estatesRoot, t)
       IN  bk' = BkCall("detect_estates", <<>>, t, names # <<>>, names, FALSE,
                        transport = "ssh")
  /\ UNCHANGED << bkRest, procs, session >>

BkRunning(e) ==
  /\ bk = NoBk
  /\ \E t \in TmuxEnvs(transport) :
       bk' = BkCall("running_instance", e, t,
                    running_instance(World, transport, estatesRoot, e, t), <<>>,
                    FALSE, Executes(transport))
  /\ UNCHANGED << bkRest, procs, session >>

BkNewWindow(e) ==
  /\ bk = NoBk
  /\ CanLaunch(HostOf(transport), CompleteEstateProc(estatesRoot, e))
  /\ \E t \in TmuxEnvs(transport) :
       LET r == new_window(World, transport, CompleteEstateProc(estatesRoot, e), t)
       IN  /\ procs' = r.w.procs /\ session' = r.w.session
           /\ bk' = BkCall("new_window", e, t, r.ret # None, r.ret, r.exc,
                           Executes(transport))
  /\ UNCHANGED bkRest

BkSendText(e) ==
  /\ bk = NoBk
  /\ \E t \in TmuxEnvs(transport) :
       LET r == send_text(World, transport, Target(EstateWindow(e)), <<"text">>, t)
       IN  bk' = BkCall("send_text", e, t, r.ret, <<>>, r.exc, Executes(transport))
  /\ UNCHANGED << bkRest, procs, session >>

BkCapture(e) ==
  /\ bk = NoBk
  /\ \E t \in TmuxEnvs(transport) :
       LET r == capture_output(World, transport, Target(EstateWindow(e)), t)
       IN  bk' = BkCall("capture_output", e, t, r.ret # <<>>, r.ret, r.exc,
                        Executes(transport))
  /\ UNCHANGED << bkRest, procs, session >>

NextBackend ==
  \/ BkRun
  \/ BkExists
  \/ BkDetect
  \/ \E e \in valid : BkRunning(e)
  \/ \E e \in valid : BkNewWindow(e)
  \/ \E e \in valid : BkSendText(e)
  \/ \E e \in valid : BkCapture(e)

SpecBackend == InitBackend /\ [][NextBackend]_vars

\* C12: under UnknownTransport every backend call comes back empty-handed
\* without executing anything and without raising: run is non-zero, exists is
\* false, detect_estates is [], running_instance is False, new_window is None,
\* send_text is False and capture_output is "".
C12_UnknownTransportDoesNothing ==
  (transport = "unknown" /\ bk # NoBk)
  => ~bk.ok /\ bk.val = <<>> /\ ~bk.exc /\ ~bk.ran

\* new_window was asked of an UnknownTransport.
C12_Witness == transport = "unknown" /\ bk.fn = "new_window"

\* The argument list carries option o after a -o.
HasOption(argv, o) ==
  \E i \in 1..(Len(argv) - 1) : argv[i] = <<"-o">> /\ argv[i + 1] = <<o>>

\* The argument list carries flag f followed by value v.
HasFlag(argv, f, v) ==
  \E i \in 1..(Len(argv) - 1) : argv[i] = <<f>> /\ argv[i + 1] = <<v>>

\* C13: every command run through an SSHTransport is wrapped in an ssh
\* invocation that sets batch mode, the accept-new host-key policy, a
\* five-second connect timeout, the port, and the identity file when one is
\* configured.
C13_SSHRunOptions ==
  bk.fn = "ssh_run"
  => /\ bk.arg[1] = <<"ssh">>
     /\ HasOption(bk.arg, "BatchMode=yes")
     /\ HasOption(bk.arg, "StrictHostKeyChecking=accept-new")
     /\ HasOption(bk.arg, "ConnectTimeout=5")
     /\ HasFlag(bk.arg, "-p", PortStr(detected.port))
     /\ Truthy(detected.identity_file) => HasFlag(bk.arg, "-i", detected.identity_file)

\* C14: when the tmux binary is absent on the host that executes commands,
\* be it the local host (LocalTransport) or the remote one (SSHTransport),
\* send_text returns False and capture_output returns "", and neither raises.
C14_NoTmuxNoRaise ==
  ( /\ bk.fn \in {"send_text", "capture_output"}
    /\ transport \in {"local", "ssh"}
    /\ ~bk.env.bin )
  => ~bk.ok /\ bk.val = <<>> /\ ~bk.exc

\* C15: new_window returns the handle session:name exactly when tmux is
\* available and the window creation succeeds (the session being there after
\* the attempt to create it); in every other case it returns None, without
\* raising.
C15_NewWindowHandleOrNone ==
  bk.fn = "new_window"
  => LET h == HostOf(transport)
         available == transport # "unknown" /\ bk.env.reach /\ bk.env.bin
         created == available /\ session[h] /\ bk.env.win
     IN  /\ ~bk.exc
         /\ created => bk.val = Target(EstateWindow(bk.arg))
         /\ ~created => bk.val = None

\* ------------------------------------------------------------------ discovery
\* The estates roots discovery is run on: missing, or holding any entries of
\* any kind, the root itself plain or laid out like an estate.
Roots(n) ==
  {NoFs} \cup
  UNION { { Fs(TRUE, self, kids) :
              self \in {Entry("dir", "none", "none"), Entry("dir", "file", "ini_file")},
              kids \in [S -> Entries] } : S \in SUBSET Names(n) }

InitDiscover ==
  /\ estatesRoot \in RootSpellings
  /\ fs \in Roots(DiscoverEntries)
  /\ valid = {n \in DOMAIN fs.kids : RemoteValid(fs.kids[n]) /\ fs.kids[n].kind = "dir"}
  /\ panel = "complete"
  /\ transport \in {"local", "ssh", "unknown"}
  /\ procs = [h \in Hosts |-> EmptyBag]
  /\ session = [h \in Hosts |-> FALSE]
  /\ markers = << >>
  /\ pc = "idle" /\ sel = <<>> /\ queue = <<>> /\ idx = 0
  /\ log = <<>> /\ sent = <<>> /\ pauses = <<>> /\ attempts = <<>>
  /\ last = NoCall
  /\ environ = NoEnviron /\ detected = NotDetected
  /\ bk = NoBk /\ pump = NoPump

NextDiscover == BkDetect

SpecDiscover == InitDiscover /\ [][NextDiscover]_vars

\* is the list in strictly ascending order
IsSorted(l) == \A i \in 1..(Len(l) - 1) : LexLess(l[i], l[i + 1])

\* C16: detect_estates(root), locally or on a reachable remote host, returns
\* in ascending order names of entries of root only: every directory holding
\* a regular OpenSim.ini and a regular Regions/*.ini is among them, no entry
\* missing OpenSim.ini or a Regions/*.ini is, and a non-existent root gives [].
C16_DetectEstatesExact ==
  ( /\ bk.fn = "detect_estates"
    /\ transport \in {"local", "ssh"} /\ bk.env.reach )
  => LET got == {bk.val[i] : i \in 1..Len(bk.val)}
         kids == DOMAIN fs.kids
         sure == {n \in kids : fs.kids[n] = Entry("dir", "file", "ini_file")}
         may == {n \in kids : _is_valid_estate_local(fs.kids[n])}
     IN  /\ ~bk.exc /\ IsSorted(bk.val)
         /\ sure \subseteq got /\ got \subseteq may
         /\ ~fs.exists => bk.val = <<>>

\* C17: running_instance(root, e), asked locally or of a reachable remote
\* host, is true exactly when a live process was launched with e's own
\* config directory as its inidirectory argument, whichever other estates run.
C17_RunningIffOwnProcess ==
  ( /\ bk.fn = "running_instance"
    /\ transport \in {"local", "ssh"} /\ bk.env.reach )
  => LET own == {EstateProc(bk.arg, PathJoin(estatesRoot, bk.arg)),
                 EstateProc(bk.arg, RawJoin(estatesRoot, bk.arg))}
     IN  bk.ok <=> (own \cap Live(World, HostOf(transport)) # {})

\* ------------------------------------------------------------------ login controls
\* LoginControlScreen.get_running_estates; the handler meets one environment t
get_running_estates(t) ==
  SelectSeq(backend_detect_estates(transport, fs, estatesRoot, t),
            LAMBDA e : running_instance(World, transport, estatesRoot, e, t))

\* f"login {action}"
LoginCommand(action) == <<"login ", action>>

\* The loop over running estates of login_region_all (each = FALSE) and
\* login_status_all (each = TRUE, which writes a line per estate): the texts
\* sent, the lines written, and whether send_text raised on the way.
RECURSIVE LoginLoop(_, _, _, _)
LoginLoop(list, text, each, t) ==
  IF list = <<>> THEN [sent |-> <<>>, log |-> <<>>, exc |-> FALSE]
  ELSE LET e == Head(list)
           rest == LoginLoop(Tail(list), text, each, t)
       IN  IF MarkerId(e) \notin DOMAIN markers
           THEN [sent |-> rest.sent,
                 log |-> (IF each THEN << Msg("No session", e) >> ELSE <<>>) \o rest.log,
                 exc |-> rest.exc]
           ELSE LET r == send_text(World, transport, strip(markers[MarkerId(e)]), text, t)
                IN  IF r.exc THEN [sent |-> <<>>, log |-> <<>>, exc |-> TRUE]
                    ELSE [sent |-> r.sent \o rest.sent,
                          log |-> (IF each THEN << Msg("Queried status", e) >> ELSE <<>>)
                                  \o rest.log,
                          exc |-> rest.exc]

\* What a handler of the login screen leaves behind: the targets it acted on,
\* the texts sent, the lines of the status log.
LoginDone(op, targets, out, lines, exc) ==
  /\ queue' = targets /\ sent' = out /\ log' = lines
  /\ last' = Call(op, <<>>, ~exc, exc, FALSE, "login")
  /\ pc' = "done"
  /\ UNCHANGED << cfgVars, procs, session, markers, sel, idx, pauses, attempts >>

\* LoginControlScreen.login_region_single(action); pick is the operator's
\* choice in the selection dialog, <<>> when dismissed
login_region_single(action, pick) ==
  /\ Idle /\ panel = "complete"
  /\ \E t \in TmuxEnvs(transport) :
       LET running == get_running_estates(t)
       IN  IF running = <<>>
           THEN /\ pick = <<>>
                /\ LoginDone("login_single", <<>>, <<>>,
                             << Msg("No running regions available", <<>>) >>, FALSE)
           ELSE IF pick = <<>> THEN LoginDone("login_single", <<>>, <<>>, <<>>, FALSE)
           ELSE /\ \E i \in 1..Len(running) : running[i] = pick
                /\ IF MarkerId(pick) \in DOMAIN markers
                   THEN LET r == send_text(World, transport, strip(markers[MarkerId(pick)]),
                                           LoginCommand(action), t)
                        IN  LoginDone("login_single", <<pick>>, r.sent,
                                      IF r.exc THEN <<>> ELSE << Msg("Sent", pick) >>, r.exc)
                   ELSE LoginDone("login_single", <<pick>>, <<>>,
                                  << Msg("No session found", pick) >>, FALSE)

\* LoginControlScreen.login_region_all(action); confirmed is the answer to
\* the confirmation dialog
login_region_all(action, confirmed) ==
  /\ Idle /\ panel = "complete"
  /\ \E t \in TmuxEnvs(transport) :
       LET running == get_running_estates(t)
           r == LoginLoop(running, LoginCommand(action), FALSE, t)
       IN  IF running = <<>>
           THEN /\ confirmed
                /\ LoginDone("login_all", <<>>, <<>>,
                             << Msg("No running regions to update", <<>>) >>, FALSE)
           ELSE IF ~confirmed THEN LoginDone("login_all", <<>>, <<>>, <<>>, FALSE)
           ELSE LoginDone("login_all", running, r.sent,
                          IF r.exc THEN <<>> ELSE << Msg("Sent to regions", <<>>) >>, r.exc)

\* LoginControlScreen.login_status_all
login_status_all ==
  /\ Idle /\ panel = "complete"
  /\ \E t \in TmuxEnvs(transport) :
       LET running == get_running_estates(t)
           r == LoginLoop(running, LoginCommand("status"), TRUE, t)
       IN  IF running = <<>>
           THEN LoginDone("login_status_all", <<>>, <<>>,
                          << Msg("No running regions to query", <<>>) >>, FALSE)
           ELSE LoginDone("login_status_all", running, r.sent,
                          << Msg("=== LOGIN STATUS ===", <<>>) >> \o r.log, r.exc)

\* The console commands of robust_login_level, _reset and _message, and the
\* line each writes
RobustLogin ==
  { [text |-> <<"login level 0">>, line |-> "Set Robust login level to 0"],
    [text |-> <<"login reset">>, line |-> "Reset Robust login"],
    [text |-> <<"login text Welcome to VergeGrid">>, line |-> "Set Robust login message"] }

\* LoginControlScreen.robust_login_level / robust_login_reset / robust_login_message
robust_login(c) ==
  /\ Idle /\ panel = "complete"
  /\ \E t \in TmuxEnvs(transport) :
       IF RobustId \in DOMAIN markers
       THEN LET r == send_text(World, transport, strip(markers[RobustId]), c.text, t)
            IN  LoginDone("robust_login", <<RobustId>>, r.sent,
                          IF r.exc THEN <<>> ELSE << Msg(c.line, RobustId) >>, r.exc)
       ELSE LoginDone("robust_login", <<RobustId>>, <<>>,
                      << Msg("No Robust session found", RobustId) >>, FALSE)

\* The login screen opened on a grid found in any state: simulators running
\* or not, markers left or not.
InitLogin ==
  /\ estatesRoot \in RootSpellings
  /\ valid = Names(LoginEstates)
  /\ fs = PlainFs(valid)
  /\ panel = "complete"
  /\ transport \in {"local", "ssh", "unknown"}
  /\ \E L \in [valid -> {"none", "path", "raw"}] :
       procs = [h \in Hosts |-> IF h = HostOf(transport)
                                THEN SetToBag(FoundProcs(L)) ELSE EmptyBag]
  /\ \E b \in BOOLEAN : session = [h \in Hosts |-> b /\ h = HostOf(transport)]
  /\ \E S \in SUBSET valid, rb \in BOOLEAN :
       markers = [id \in {MarkerId(e) : e \in S} \cup (IF rb THEN {RobustId} ELSE {}) |->
                    IF id = RobustId THEN Target(RobustWindow)
                    ELSE Target(<<"estate-">> \o Tail(id))]
  /\ pc = "idle" /\ sel = <<>> /\ queue = <<>> /\ idx = 0
  /\ log = <<>> /\ sent = <<>> /\ pauses = <<>> /\ attempts = <<>>
  /\ last = NoCall
  /\ environ = NoEnviron /\ detected = NotDetected
  /\ bk = NoBk /\ pump = NoPump

NextLogin ==
  \/ \E action \in {"enable", "disable", "status"}, pick \in valid \cup {<<>>} :
       login_region_single(action, pick)
  \/ \E action \in {"enable", "disable"}, confirmed \in BOOLEAN :
       login_region_all(action, confirmed)
  \/ login_status_all
  \/ \E c \in RobustLogin : robust_login(c)
  \/ Return

SpecLogin == InitLogin /\ [][NextLogin]_vars

\* The marker id of a target of the login screen.
LoginMarker(x) == IF x = RobustId THEN RobustId ELSE MarkerId(x)

\* C18: a login action sends text to nothing but the handles stored in the
\* markers of its targets, and for every target without a marker it sends
\* nothing and writes a no-session line naming that target.
C18_NoMarkerNoText ==
  last.via = "login"
  => /\ \A i \in 1..Len(sent) :
          \E j \in 1..Len(queue) :
             /\ LoginMarker(queue[j]) \in DOMAIN markers
             /\ sent[i].target = strip(markers[LoginMarker(queue[j])])
     /\ (~last.exc) =>
          \A j \in 1..Len(queue) :
             LoginMarker(queue[j]) \notin DOMAIN markers
             => \E k \in 1..Len(log) :
                  /\ log[k].id = queue[j]
                  /\ log[k].msg \in {"No session", "No session found",
                                     "No Robust session found"}

\* ------------------------------------------------------------------ estate screen
\* The lifecycle buttons of EstateControlScreen.
Buttons == {"start_one", "stop_one", "restart_one", "start_all", "stop_all"}

\* The progress dialog of a batch is on top of the estate screen.
ProgressOpen ==
  pc \in {"w_start_all", "w_stop_all", "c_start_all", "c_stop_all"} /\ ~pump.closed

pumpRest == << estatesRoot, valid, panel, transport, environ, detected, fs, bk,
               procs, session, markers, pc, sel, queue, idx, log, sent, pauses,
               attempts, last >>

\* The operator presses a button of the estate screen; the message joins the
\* screen's queue.
Press(b) ==
  /\ ~ProgressOpen
  /\ Len(pump.inbox) < MaxInbox
  /\ pump' = [pump EXCEPT !.inbox = Append(@, b)]
  /\ UNCHANGED pumpRest

\* A pump that invokes the next handler while one is still awaited.
TakeWhilePending ==
  /\ pump.inbox # <<>>
  /\ pump' = [pump EXCEPT !.inbox = Tail(@), !.running = Append(@, Head(pump.inbox))]
  /\ UNCHANGED pumpRest

\* The pump hands the next press to on_button_pressed, which awaits the
\* handler of the button; no other press is taken until it has returned.
Take ==
  /\ pump.inbox # <<>>
  /\ pump.running = <<>>
  /\ pump' = [pump EXCEPT !.inbox = Tail(@), !.running = Append(@, Head(pump.inbox))]
  /\ UNCHANGED pumpRest

\* The operator presses Close on the progress dialog while the batch sleeps.
ProgressClose ==
  /\ ProgressOpen /\ idx > 0
  /\ pump' = [pump EXCEPT !.closed = TRUE]
  /\ UNCHANGED pumpRest

\* on_button_pressed returns: the handler has finished, or had nothing to do
\* (its dialog was dismissed, no estate to act on).
PumpReturn ==
  /\ pump.running # <<>> /\ pc \in {"idle", "done"}
  /\ pump' = [pump EXCEPT !.running = Tail(@), !.closed = FALSE]
  /\ pc' = "idle" /\ sel' = <<>>
  /\ log' = <<>> /\ sent' = <<>> /\ last' = NoCall
  /\ queue' = <<>> /\ idx' = 0 /\ pauses' = <<>> /\ attempts' = <<>>
  /\ UNCHANGED << estatesRoot, valid, panel, transport, environ, detected, fs, bk,
                  procs, session, markers >>

Running(b) == pump.running # <<>> /\ Head(pump.running) = b

\* The estate screen opened on n estates, none running, nothing pressed yet.
ScreenOpened(n) ==
  /\ estatesRoot \in RootSpellings
  /\ valid = Names(n)
  /\ \/ panel = "working" /\ transport = "local"
     \/ panel = "complete" /\ transport \in {"local", "ssh", "unknown"}
  /\ procs = [h \in Hosts |-> EmptyBag]
  /\ session = [h \in Hosts |-> FALSE]
  /\ markers = << >>
  /\ pc = "idle" /\ sel = <<>> /\ queue = <<>> /\ idx = 0
  /\ log = <<>> /\ sent = <<>> /\ pauses = <<>> /\ attempts = <<>>
  /\ last = NoCall
  /\ environ = NoEnviron /\ detected = NotDetected
  /\ fs = NoFs /\ bk = NoBk /\ pump = NoPump

InitPump == ScreenOpened(PumpEstates)

NextPump ==
  \/ \E b \in Buttons : Press(b)
  \/ Take
  \/ ProgressClose
  \/ PumpReturn
  \/ Running("start_one") /\ \E e \in valid : W_start_one_estate(e)
  \/ Running("start_one") /\ \E e \in valid : C_start_one_estate(e)
  \/ Running("stop_one") /\ \E e \in valid, force \in BOOLEAN : W_stop_one_estate(e, force)
  \/ Running("stop_one") /\ \E e \in valid, choice \in BOOLEAN : C_stop_one_estate(e, choice)
  \/ Running("restart_one") /\ \E e \in valid : W_restart_begin(e)
  \/ Running("restart_one") /\ \E e \in valid, choice \in BOOLEAN : C_restart_begin(e, choice)
  \/ W_restart_resume
  \/ C_restart_resume
  \/ Running("start_all") /\ W_start_all_begin
  \/ Running("start_all") /\ C_start_all_begin
  \/ W_start_all_item
  \/ C_start_all_item
  \/ W_start_all_finish
  \/ C_start_all_finish
  \/ Running("stop_all") /\ W_stop_all_begin
  \/ Running("stop_all") /\ C_stop_all_begin
  \/ W_stop_all_item
  \/ C_stop_all_item
  \/ W_stop_all_finish
  \/ C_stop_all_finish

SpecPump == InitPump /\ [][NextPump]_vars

\* The same screen over enough estates for a batch to have items left when
\* its progress dialog is closed.
InitCancel == ScreenOpened(CancelEstates)

SpecCancel == InitCancel /\ [][NextPump]_vars

\* C19: at most one lifecycle handler of the estate screen is in flight at
\* any time, so no two operations are in flight for one logicalId: a press
\* made while a handler is pending (in the settle delay of a restart, in the
\* pauses of a batch) waits in the queue until that handler has returned.
C19_OneOperationInFlight ==
  /\ Len(pump.running) <= 1
  /\ pc # "idle" => pump.running # <<>>

\* A stop was requested during the settle delay of a restart, and waits.
C19_Witness ==
  /\ pc = "c_restart_sleep" /\ pump.running = <<"restart_one">>
  /\ pump.inbox = <<"stop_one">>

\* C20: once the operator has closed the progress dialog of a running
\* start-all or stop-all, the batch issues no further start or stop, and
\* what it has done stays done.
C20_NoOperationAfterCancel ==
  [][ (pump.closed /\ pc \in {"w_start_all", "w_stop_all", "c_start_all", "c_stop_all"})
      => (attempts' = attempts /\ procs' = procs /\ sent' = sent) ]_vars

\* ------------------------------------------------------------------ routing
\* The gridctl_complete panel opened with any transport on a machine that may
\* itself run a grid, while the transport's host runs one too; markers are
\* left in the home directory from earlier sessions.
InitRoute ==
  /\ estatesRoot \in RootSpellings
  /\ valid = Names(RouteEstates)
  /\ panel = "complete"
  /\ transport \in {"local", "ssh", "unknown"}
  /\ \E L \in [Hosts -> SUBSET ({CompleteEstateProc(estatesRoot, e) : e \in valid}
                               \cup {RobustProc})] :
       procs = [h \in Hosts |-> SetToBag(L[h])]
  /\ session = [h \in Hosts |-> procs[h] # EmptyBag]
  /\ \E S \in SUBSET valid, rb \in BOOLEAN :
       markers = [id \in {MarkerId(e) : e \in S} \cup (IF rb THEN {RobustId} ELSE {}) |->
                    IF id = RobustId THEN Target(RobustWindow)
                    ELSE Target(<<"estate-">> \o Tail(id))]
  /\ pc = "idle" /\ sel = <<>> /\ queue = <<>> /\ idx = 0
  /\ log = <<>> /\ sent = <<>> /\ pauses = <<>> /\ attempts = <<>>
  /\ last = NoCall
  /\ environ = NoEnviron /\ detected = NotDetected
  /\ fs = NoFs /\ bk = NoBk /\ pump = NoPump

NextRoute ==
  \/ \E e \in valid : C_start_one_estate(e)
  \/ \E e \in valid, choice \in BOOLEAN : C_stop_one_estate(e, choice)
  \/ C_start_robust
  \/ \E choice \in BOOLEAN : C_stop_robust(choice)
  \/ Return

SpecRoute == InitRoute /\ [][NextRoute]_vars

\* C21: every lifecycle operation acts on the host of the transport: with
\* the SSH transport no process of the local machine is started, signalled
\* or killed, and with the Unknown transport no process anywhere is.
C21_ActsOnTransportHost ==
  [][ /\ transport = "ssh" => procs'["local"] = procs["local"]
      /\ transport = "unknown" => procs' = procs ]_vars

\* ------------------------------------------------------------------ registry
\* The marker an operation recorded in `last` is about.
MarkerOf(l) == IF l.op \in {"start_robust", "stop_robust"} THEN RobustId ELSE MarkerId(l.id)

\* What a marker holds: vgctl:estate-<e> for estate_<e>, vgctl:robust for robust.
MarkerContent(id) ==
  IF id = RobustId THEN Target(RobustWindow) ELSE Target(<<"estate-">> \o Tail(id))

\* C22: a marker appears only in a successful start of its id, disappears
\* only in a forced stop of its id, and whenever present holds exactly the
\* tmux target of its id.
C22_MarkerLifecycle ==
  [][ /\ \A id \in (DOMAIN markers') \ (DOMAIN markers) :
           /\ last'.op \in {"start_estate", "start_robust"} /\ last'.ok
           /\ MarkerOf(last') = id
      /\ \A id \in (DOMAIN markers) \ (DOMAIN markers') :
           /\ last'.op \in {"stop_estate", "stop_robust"} /\ last'.force
           /\ MarkerOf(last') = id
      /\ \A id \in DOMAIN markers' : markers'[id] = MarkerContent(id) ]_vars

\* An estate and robust have been started and hold their markers.
C22_Witness ==
  /\ RobustId \in DOMAIN markers
  /\ \E e \in valid : MarkerId(e) \in DOMAIN markers
  /\ pc = "done" /\ last.op = "start_estate" /\ last.ok

\* C23: with neither override set and the local heuristic failing, the
\* transport is SSH whenever a remote host and an identity key or a password
\* are configured (in cfg when one is passed, else in the environment; for
\* the application, in its settings) and Unknown otherwise.
C23_FallbackToSSH ==
  ( /\ detected.kind \notin {"none", "raise"}
    /\ ~_env_bool(environ.force_ssh) /\ ~_env_bool(environ.force_local)
    /\ ~(environ.tmux_available /\ environ.base_exists /\ environ.estates_exists) )
  => LET fromCfg == environ.cfg.given \/ last.op = "VergeGridApp"
         host == IF fromCfg THEN environ.cfg.host ELSE environ.env_host
         key == IF fromCfg THEN environ.cfg.identity_file ELSE environ.env_key
         pwd == IF fromCfg THEN environ.cfg.password ELSE environ.env_pwd
         configured == Truthy(host) /\ (Truthy(key) \/ Truthy(pwd))
     IN  detected.kind = IF configured THEN "ssh" ELSE "unknown"

\* C24: a forced stop of an estate or of Robust whose own process is alive
\* on the local machine, and which has no marker, still signals the
\* process and reports it: the complete panel logs "Force killed", the
\* working panel's stop returns True unless the signal was refused.
C24_ForcedStopWithoutMarker ==
  [][ ( /\ pc = "idle" /\ transport = "local"
        /\ last'.op \in {"stop_estate", "stop_robust"} /\ last'.force
        /\ MarkerOf(last') \notin DOMAIN markers
        /\ Live(World, "local") \cap
             ( IF last'.op = "stop_robust" THEN {RobustProc, RobustShellProc}
               ELSE IF panel = "complete"
               THEN {CompleteEstateProc(estatesRoot, last'.id)}
               ELSE {WorkingProc(last'.id)} ) # {} )
      => IF panel = "complete"
         THEN \E i \in DOMAIN log' : log'[i] = Msg("Force killed", last'.id)
         ELSE last'.ok \/ procs' = procs ]_vars

\* ------------------------------------------------------------------ state observation
\* The rows refresh_estates writes into the estate table.
StatusRows(list, isRunning) ==
  [i \in 1..Len(list) |->
     Msg(IF list[i] \in isRunning THEN "RUNNING" ELSE "STOPPED", list[i])]

Refreshed(rows) ==
  /\ log' = rows
  /\ last' = Call("refresh_estates", <<>>, TRUE, FALSE, FALSE, panel)
  /\ sent' = <<>>
  /\ pc' = "done"
  /\ UNCHANGED << cfgVars, batchVars, sel, procs, session, markers >>

\* gridctl_working EstateControlScreen.refresh_estates
W_refresh_estates ==
  /\ Idle /\ panel = "working"
  /\ Refreshed(StatusRows(sorted(valid),
                          {e \in valid : is_estate_running(World, estatesRoot, e)}))

\* gridctl_complete EstateControlScreen.refresh_estates
C_refresh_estates ==
  /\ Idle /\ panel = "complete"
  /\ \E t \in TmuxEnvs(transport) :
       Refreshed(StatusRows(estates_detect_estates(transport, t),
                            {e \in valid : running_instance(World, transport,
                                                            estatesRoot, e, t)}))

NextObserve ==
  \/ \E e \in valid : W_start_one_estate(e)
  \/ \E e \in valid, force \in BOOLEAN : W_stop_one_estate(e, force)
  \/ \E e \in valid : C_start_one_estate(e)
  \/ \E e \in valid, choice \in BOOLEAN : C_stop_one_estate(e, choice)
  \/ W_refresh_estates
  \/ C_refresh_estates
  \/ Return
  \/ \E h \in Hosts, p \in AllProcs : ProcExit(h, p)

\* The screen refreshes whenever it is left idle, and a handler that has
\* finished returns to the event loop.
SpecObserve ==
  /\ InitLife /\ [][NextObserve]_vars
  /\ WF_vars(W_refresh_estates) /\ WF_vars(C_refresh_estates) /\ WF_vars(Return)

ObservedStopped(e) ==
  /\ last.op = "refresh_estates"
  /\ \E i \in DOMAIN log : log[i] = Msg("STOPPED", e)

\* C25: when the estate list keeps being refreshed, an estate observed as
\* Stopped while its marker exists (a graceful stop after which the
\* process exited) eventually has no marker.
C25_StoppedLosesMarker ==
  ([]<>(last.op = "refresh_estates"))
  => \A e \in Names(LifeEstates) :
       (ObservedStopped(e) /\ MarkerId(e) \in DOMAIN markers)
         ~> (MarkerId(e) \notin DOMAIN markers)

\* ------------------------------------------------------------------ restart
\* gridctl_working RobustControlScreen.restart_robust up to its sleep(2)
W_restart_robust_begin ==
  /\ Idle /\ panel = "working"
  /\ IF is_robust_running(World)
     THEN \E t \in TmuxEnvs("local") :
            LET r == stop_robust(World, FALSE, << >>, t)
            IN  /\ sent' = r.sent
                /\ last' = Call("stop_robust", RobustId, r.ret, r.exc, FALSE, "restart")
                /\ pc' = IF r.exc THEN "crashed" ELSE "w_robust_sleep"
                /\ pauses' = IF r.exc THEN <<>> ELSE <<2>>
     ELSE /\ sent' = <<>> /\ pauses' = <<>>
          /\ last' = NoCall
          /\ pc' = "w_robust_sleep"
  /\ log' = << Msg("Restarting", RobustId) >>
  /\ UNCHANGED << cfgVars, procs, session, markers, queue, idx, attempts, sel >>

\* ... and from there on
W_restart_robust_resume ==
  /\ pc = "w_robust_sleep" /\ panel = "working"
  /\ CanLaunch("local", RobustProc)
  /\ \E exe \in RobustExe :
     \E t \in (IF exe = "none" THEN {AnyEnv} ELSE TmuxEnvs("local")) :
       LET r == start_robust(World, exe, t)
       IN  /\ SetWorld(r.w)
           /\ last' = Call("start_robust", RobustId, r.ret # None, r.exc, FALSE, "restart")
           /\ log' = log \o (IF r.exc THEN <<>>
                             ELSE IF r.ret # None THEN << Msg("Restarted", RobustId) >>
                             ELSE << Msg("Failed to restart", RobustId) >>)
           /\ pc' = IF r.exc THEN "crashed" ELSE "done"
  /\ sent' = <<>>
  /\ UNCHANGED << cfgVars, batchVars, sel >>

\* gridctl_complete RobustControlScreen.restart_robust up to its sleep(2)
C_restart_robust_begin(choice) ==
  /\ Idle /\ panel = "complete"
  /\ \E t \in StopEnvs(transport, ~choice),
        sig \in StopSigs(PkillMatches(World, <<"Robust">>), ~choice) :
       LET r == Complete_stop_robust(World, transport, choice, sig, t)
       IN  /\ SetWorld(r.w)
           /\ sent' = r.sent
           /\ log' = r.log
           /\ last' = Call("stop_robust", RobustId, ~r.exc, r.exc, ~choice, "restart")
  /\ pc' = "c_robust_sleep" /\ pauses' = <<2>>
  /\ UNCHANGED << cfgVars, queue, idx, attempts, sel >>

\* ... and from there on
C_restart_robust_resume ==
  /\ pc = "c_robust_sleep" /\ panel = "complete"
  /\ CanLaunch(HostOf(transport), RobustShellProc)
  /\ \E t \in TmuxEnvs(transport) :
       LET r == Complete_start_robust(World, transport, t)
       IN  /\ SetWorld(r.w)
           /\ last' = Call("start_robust", RobustId, r.ok, r.exc, FALSE, "restart")
           /\ log' = log \o r.log
  /\ sent' = <<>>
  /\ pc' = "done"
  /\ UNCHANGED << cfgVars, batchVars, sel >>

NextRestart ==
  \/ \E e \in valid : W_start_one_estate(e)
  \/ \E e \in valid : C_start_one_estate(e)
  \/ CallStartRobust
  \/ C_start_robust
  \/ \E e \in valid : W_restart_begin(e)
  \/ W_restart_resume
  \/ \E e \in valid, choice \in BOOLEAN : C_restart_begin(e, choice)
  \/ C_restart_resume
  \/ W_restart_robust_begin
  \/ W_restart_robust_resume
  \/ \E choice \in BOOLEAN : C_restart_robust_begin(choice)
  \/ C_restart_robust_resume
  \/ Return
  \/ \E h \in Hosts, p \in AllProcs : ProcExit(h, p)

SpecRestart == InitLife /\ [][NextRestart]_vars

RestartSleeping == pc \in {"w_restart_sleep", "c_restart_sleep",
                           "w_robust_sleep", "c_robust_sleep"}

Logged(l, msgs, id) == \E i \in DOMAIN l : l[i].id = id /\ l[i].msg \in msgs

\* C26: the start step of a restart comes after the stop step and the
\* 2-unit delay (the working panel skips both for an id that is not
\* running); when it creates no new session the operator is told of a
\* failure, and a success is reported only when a new session was created.
C26_RestartReportsOutcome ==
  [][ ( RestartSleeping /\ pc' \notin {"w_restart_sleep", "c_restart_sleep",
                                       "w_robust_sleep", "c_robust_sleep"}
        /\ last'.op \in {"start_estate", "start_robust"} )
      => /\ pauses = <<2>> \/ (panel = "working" /\ last = NoCall)
         /\ procs' = procs =>
              Logged(log', {"Failed to restart", "Failed to start", "Error starting"},
                     last'.id)
         /\ Logged(log', {"Restarted", "Started"}, last'.id) => procs' # procs ]_vars

\* ------------------------------------------------------------------ the Robust executable
\* Which of Robust.dll and Robust.exe the base directory holds.
RobustFiles == {"both", "dll", "exe", "none"}

\* if Robust.dll: dotnet ...; elif Robust.exe: mono ...; else nothing to run:
\* the Python test of gridctl_working, the shell test of gridctl_complete.
RobustCommand(files) ==
  IF files \in {"both", "dll"} THEN "dotnet"
  ELSE IF files = "exe" THEN "mono" ELSE "none"

Chose(files) == << [files |-> files, command |-> RobustCommand(files)] >>

\* gridctl_working.start_robust on a base directory holding `files`
W_start_robust_in(files) ==
  /\ Idle /\ panel = "working"
  /\ CanLaunch("local", RobustProc)
  /\ LET exe == IF RobustCommand(files) = "dotnet" THEN "dll"
                ELSE IF RobustCommand(files) = "mono" THEN "exe" ELSE "none"
     IN \E t \in (IF exe = "none" THEN {AnyEnv} ELSE TmuxEnvs("local")) :
          LET r == start_robust(World, exe, t)
          IN  /\ SetWorld(r.w)
              /\ last' = Call("start_robust", RobustId, r.ret # None, r.exc, FALSE, "call")
  /\ attempts' = Chose(files)
  /\ log' = <<>> /\ sent' = <<>>
  /\ pc' = "done"
  /\ UNCHANGED << cfgVars, sel, queue, idx, pauses >>

\* gridctl_complete RobustControlScreen.start_robust on a base directory
\* holding `files`: the window's shell makes the choice.
C_start_robust_in(files) ==
  /\ Idle /\ panel = "complete"
  /\ CanLaunch(HostOf(transport), RobustShellProc)
  /\ \E t \in TmuxEnvs(transport) :
       LET r == Complete_start_robust(World, transport, t)
       IN  /\ SetWorld(r.w)
           /\ last' = Call("start_robust", RobustId, r.ok, r.exc, FALSE, "robust")
           /\ log' = r.log
  /\ attempts' = Chose(files)
  /\ sent' = <<>>
  /\ pc' = "done"
  /\ UNCHANGED << cfgVars, sel, queue, idx, pauses >>

NextRobust ==
  \/ \E files \in RobustFiles : W_start_robust_in(files)
  \/ \E files \in RobustFiles : C_start_robust_in(files)
  \/ \E force \in BOOLEAN : CallStopRobust(force)
  \/ \E choice \in BOOLEAN : C_stop_robust(choice)
  \/ Return
  \/ \E h \in Hosts, p \in AllProcs : ProcExit(h, p)

SpecRobust == InitLife /\ [][NextRobust]_vars

\* C27: a start of Robust runs dotnet Robust.dll when Robust.dll exists,
\* mono Robust.exe when only Robust.exe exists; when neither exists it
\* reports a failure and writes no marker.
C27_NoExecutableNoMarker ==
  [][ ( pc = "idle" /\ last'.op = "start_robust" /\ attempts' # <<>> )
      => LET c == attempts'[1]
         IN  /\ c.files \in {"both", "dll"} => c.command = "dotnet"
             /\ c.files = "exe" => c.command = "mono"
             /\ c.files = "none" => (~last'.ok /\ markers' = markers) ]_vars

\* C28: on the local machine, while a process launched for estate e is
\* alive the panel's running check reports e running, whichever way the
\* estates root is spelled, and a start-all that begins then does not put e
\* on its list of stopped estates.
C28_AliveIsSeenRunning ==
  [][ ( pc = "idle" /\ last'.op = "start_all" /\ transport = "local" )
      => \A e \in valid :
           OwnProcess("local", e) =>
             /\ IF panel = "complete"
                THEN \A t \in TmuxEnvs("local") :
                       running_instance(World, transport, estatesRoot, e, t)
                ELSE is_estate_running(World, estatesRoot, e)
             /\ \A i \in 1..Len(queue') : queue'[i] # e ]_vars

\* C29: a forced stop of estate e ends only processes launched for e and
\* removes only the marker of e; the processes and markers of every other
\* estate (one whose name begins with the name of e included) and of Robust
\* are as before.
C29_ForcedStopTouchesOnlyTarget ==
  [][ ( pc = "idle" /\ last'.op = "stop_estate" /\ last'.force )
      => /\ \A id \in (DOMAIN markers) \ {MarkerId(last'.id)} :
              id \in DOMAIN markers' /\ markers'[id] = markers[id]
         /\ \A h \in Hosts : \A p \in BagToSet(procs[h]) :
              p.win # EstateWindow(last'.id)
                => CopiesIn(p, procs'[h]) = CopiesIn(p, procs[h]) ]_vars

\* ------------------------------------------------------------------ estate.args
\* An estate.args file: absent, or holding text. Before the first edit it is
\* absent or as written by hand, with blanks around the arguments.
ArgsFile(there, text) == [exists |-> there, text |-> text]

\* The texts a file can hold and the operator can leave in the text area.
ArgsTexts == { <<>>, <<"-", "gc">>, <<" ", "-", "gc", "\n">> }

\* if args_file.exists(): current_args = args_file.read_text().strip()
current_args(f) == IF f.exists THEN strip(f.text) ELSE <<>>

\* EstateArgsModal.on_button_pressed: what the dialog is dismissed with
EstateArgsModal(text_area, button) == IF button = "save" THEN text_area ELSE <<>>

\* What new_args can be when push_screen_wait returns; the dialog has no
\* path that yields None.
IsNone(new_args) == FALSE

InitArgs ==
  /\ estatesRoot \in RootSpellings
  /\ valid = Names(ArgsEstates)
  /\ panel \in {"working", "complete"} /\ transport = "local"
  /\ procs = [h \in Hosts |-> EmptyBag]
  /\ session = [h \in Hosts |-> FALSE]
  /\ markers = << >>
  /\ pc = "idle" /\ sel = <<>> /\ queue = <<>> /\ idx = 0
  /\ log = <<>> /\ sent = <<>> /\ pauses = <<>> /\ attempts = <<>>
  /\ last = NoCall
  /\ environ = NoEnviron /\ detected = NotDetected
  /\ fs \in [valid -> {ArgsFile(FALSE, <<>>), ArgsFile(TRUE, <<" ", "-", "gc", "\n">>)}]
  /\ bk = NoBk /\ pump = NoPump

\* EstateControlScreen.edit_estate_args of either panel: the operator picks
\* e, leaves `typed` in the text area (which opened on current_args) and
\* presses `button`.
edit_estate_args(e, typed, button) ==
  /\ Idle
  /\ typed \in ArgsTexts \cup {current_args(fs[e])}
  /\ LET new_args == EstateArgsModal(typed, button)
     IN  IF IsNone(new_args)
         THEN fs' = fs /\ log' = <<>>
         ELSE /\ fs' = [fs EXCEPT ![e] = ArgsFile(TRUE, new_args)]
              /\ log' = << Msg("Updated args", e) >>
  /\ last' = Call("edit_estate_args", e, TRUE, FALSE, FALSE, button)
  /\ attempts' = << [id |-> e, text |-> typed] >>
  /\ sent' = <<>>
  /\ pc' = "done"
  /\ UNCHANGED << estatesRoot, valid, panel, transport, environ, detected, bk, pump,
                  procs, session, markers, sel, queue, idx, pauses >>

\* ... the operator leaving the estate selection without a choice
edit_estate_args_unselected ==
  /\ Idle
  /\ last' = Call("edit_estate_args", <<>>, TRUE, FALSE, FALSE, "none")
  /\ log' = <<>> /\ sent' = <<>> /\ attempts' = <<>>
  /\ pc' = "done"
  /\ UNCHANGED << cfgVars, procs, session, markers, sel, queue, idx, pauses >>

NextArgs ==
  \/ \E e \in valid, typed \in ArgsTexts, button \in {"save", "cancel"} :
       edit_estate_args(e, typed, button)
  \/ edit_estate_args_unselected
  \/ Return

SpecArgs == InitArgs /\ [][NextArgs]_vars

\* C30: cancelling the estate-arguments editor leaves estate.args as it was
\* (absent stays absent, content is kept); Save writes exactly the text of
\* the text area, to the file of the chosen estate only.
C30_CancelKeepsArgsFile ==
  [][ ( pc = "idle" /\ last'.op = "edit_estate_args" )
      => IF last'.via = "save"
         THEN fs' = [fs EXCEPT ![last'.id] = ArgsFile(TRUE, attempts'[1].text)]
         ELSE fs' = fs ]_vars

====
